---- MODULE Spec2Model ----
(***************************************************************************)
(* InvestIA front end (React/TypeScript).                                  *)
(*                                                                         *)
(* Spec         : App router + ApiClient + Login page + AppLayout          *)
(* SpecHoldings : HoldingsList (quotes refresh, delete, edit)              *)
(* SpecTx       : TransactionsHistory (list, edit dialog, void dialog)     *)
(*                                                                         *)
(* Each handler of the source is one action.  A handler is written as a    *)
(* function from the state record before it to the state record after it,  *)
(* closed by the render React performs once the handler returns            *)
(* (route resolution, mounts and unmounts, effects).                       *)
(***************************************************************************)
EXTENDS Integers, Sequences, FiniteSets, TLC

VARIABLES app, hl, th, sl, pp, nl, wd, rb, lf, ah, cb, ed, pr, rk, pg

vars == <<app, hl, th, sl, pp, nl, wd, rb, lf, ah, cb, ed, pr, rk, pg>>

----------------------------------------------------------------------------
(* Bounds *)

\* in-flight requests of one endpoint that the model follows at once
MaxInflight == 2

\* requests of HoldingsList, and portfolio reloads it asked for, that the
\* model follows at once
MaxHlInflight == 1

----------------------------------------------------------------------------
(* Values *)

None == "none"

\* JavaScript truthiness of a string | null | undefined value
Truthy(x) == x \notin {None, ""}

\* a || b on such values
Or(a, b) == IF Truthy(a) THEN a ELSE b

Tokens == {"t1", "t2"}

\* data.access_token of a response of POST /auth/login or /auth/register
RespTokens == {None, ""} \cup Tokens

NoHeader == [scheme |-> "none", cred |-> ""]

\* `Bearer ${t}`
Bearer(t) == [scheme |-> "Bearer", cred |-> t]

Paths == {"/login", "/", "/inicio", "/carteira", "/perfil", "/dashboard"}

Protected == {"Dashboard", "PortfolioPage", "ProfilePage"}

Portfolios == {"p1", "p2"}

----------------------------------------------------------------------------
(* ApiClient.ts *)

\* api.interceptors.request.use: the header a request leaves with.  The
\* config handed to the interceptor already carries api.defaults.headers.
RequestAuth(s) ==
  IF Truthy(s.stored) THEN Bearer(s.stored) ELSE s.defHeader

Req(s, ep) == [ep |-> ep, auth |-> RequestAuth(s), stored |-> s.stored]

Send(s, ep) == [s EXCEPT !.out = @ \cup {Req(s, ep)}]

\* setAuthToken that leaves the default header in place when it clears
setAuthTokenKeepsHeader(s, t) ==
  IF ~Truthy(t)
  THEN [s EXCEPT !.stored = None, !.lastSet = t]
  ELSE [s EXCEPT !.stored = t, !.defHeader = Bearer(t), !.lastSet = t]

\* lastSet records the argument of the call
setAuthToken(s, t) ==
  IF ~Truthy(t)
  THEN [s EXCEPT !.stored = None, !.defHeader = NoHeader, !.lastSet = t]
  ELSE [s EXCEPT !.stored = t, !.defHeader = Bearer(t), !.lastSet = t]

----------------------------------------------------------------------------
(* App.tsx *)

\* const update = () => setToken(localStorage.getItem('token'))
update(s) == [s EXCEPT !.token = s.stored]

Nav(to) == [kind |-> "nav", to |-> to, page |-> None]
Page(p) == [kind |-> "page", to |-> None, page |-> p]

InLayout(p) == p \in {"/", "/inicio", "/carteira", "/perfil"}

\* the layout route without its token test
LayoutElementUnguarded(tok, p) ==
  CASE p = "/"         -> Nav("/inicio")
    [] p = "/inicio"   -> Page("Dashboard")
    [] p = "/carteira" -> Page("PortfolioPage")
    [] OTHER           -> Page("ProfilePage")

\* element of the layout route: token ? <AppLayout/> : <Navigate to="/login"/>
LayoutElement(tok, p) ==
  IF Truthy(tok)
  THEN CASE p = "/"         -> Nav("/inicio")
         [] p = "/inicio"   -> Page("Dashboard")
         [] p = "/carteira" -> Page("PortfolioPage")
         [] OTHER           -> Page("ProfilePage")
  ELSE Nav("/login")

\* <Routes> of App: the element the router renders for a path
RouteElement(tok, p) ==
  IF p = "/login"
  THEN IF Truthy(tok) THEN Nav("/inicio") ELSE Page("Login")
  ELSE IF InLayout(p)
       THEN LayoutElement(tok, p)
       ELSE Nav(IF Truthy(tok) THEN "/inicio" ELSE "/login")

RECURSIVE Resolve(_, _)
Resolve(tok, p) ==
  LET e == RouteElement(tok, p)
  IN  IF e.kind = "nav" THEN Resolve(tok, e.to)
      ELSE [path |-> p, page |-> e.page]

----------------------------------------------------------------------------
(* Login.tsx *)

NoFields == [email |-> FALSE, pass |-> FALSE, confirm |-> TRUE, name |-> FALSE]

\* formValid; the fields are kept as the outcome of their tests:
\* email: /\S+@\S+\.\S+/.test(email); pass: password.trim().length >= 6;
\* confirm: password === confirm; name: name.trim().length >= 2
formValid(s) ==
  IF s.mode = "login"
  THEN s.fields.email /\ s.fields.pass
  ELSE s.fields.email /\ s.fields.pass /\ s.fields.confirm /\ s.fields.name

DefaultError == "Ocorreu um erro. Tente novamente."
NoTokenError == "Login nao retornou access_token"

\* the rejection values of a request: err.response.data.detail,
\* err.response.data.message and err.message
Errors ==
  [detail : {None, "", "Credenciais"}, message : {None, "Indisponivel"},
   errmsg : {None, "Network Error"}]

\* the catch without the response's message
SubmitErrorTextNoMessage(err) ==
  Or(err.detail, Or(err.errmsg, DefaultError))

\* catch (err) of handleSubmit
SubmitErrorText(err) ==
  Or(err.detail, Or(err.message, Or(err.errmsg, DefaultError)))

\* a fresh <Login/>
MountLogin(s) ==
  [s EXCEPT !.mode = "login", !.fields = NoFields, !.loading = FALSE,
            !.error = None, !.mountFx = TRUE,
            !.submitStale = (s.submitPc # "idle")]

UnmountLogin(s) ==
  [s EXCEPT !.mode = "login", !.fields = NoFields, !.loading = FALSE,
            !.error = None, !.mountFx = FALSE,
            !.submitStale = (s.submitPc # "idle")]

----------------------------------------------------------------------------
(* AppLayout.tsx *)

\* a fresh <AppLayout/>: its effect calls loadUser() and reloadPortfolio()
MountLayout(s) ==
  LET m == [s EXCEPT !.user = None, !.userLoading = TRUE,
                     !.portfolio = None, !.portfolioLoading = TRUE,
                     !.meFresh = 1, !.sumFresh = 1]
  IN  Send(Send(m, "/auth/me"), "/portfolio/summary")

\* requests of an unmounted AppLayout stay in flight
UnmountLayout(s) ==
  [s EXCEPT !.user = None, !.userLoading = FALSE,
            !.portfolio = None, !.portfolioLoading = FALSE,
            !.meStale = @ + s.meFresh, !.meFresh = 0,
            !.sumStale = @ + s.sumFresh, !.sumFresh = 0]

----------------------------------------------------------------------------
(* The render that follows a handler *)

\* old: the state before the handler; s: the state the handler left;
\* boot: the page was just loaded
Render(old, s, boot) ==
  LET first   == RouteElement(s.token, s.path)
      r       == Resolve(s.token, s.path)
      keepLog == ~boot /\ old.page = "Login" /\ first.kind = "page"
                 /\ r.page = "Login"
      keepLay == ~boot /\ old.page \in Protected /\ InLayout(s.path)
                 /\ r.page \in Protected
      s1 == [s EXCEPT !.path = r.path, !.page = r.page]
      s2 == IF old.page = "Login" /\ ~keepLog /\ ~boot
            THEN UnmountLogin(s1) ELSE s1
      s3 == IF old.page \in Protected /\ ~keepLay /\ ~boot
            THEN UnmountLayout(s2) ELSE s2
      s4 == IF r.page = "Login" /\ ~keepLog THEN MountLogin(s3) ELSE s3
      s5 == IF r.page \in Protected /\ ~keepLay THEN MountLayout(s4) ELSE s4
      \* useEffect(() => setAuthToken(token ?? undefined), [token]),
      \* after the effects of the children
      s6 == IF boot \/ s.token # old.token
            THEN setAuthToken(s5, s5.token) ELSE s5
  IN  s6

NoCall == "nocall"
NoError == [detail |-> None, message |-> None, errmsg |-> None]

\* op, out, nav, err, stale and lastSet describe the last step: the handler
\* that ran, the requests it sent, the target of its navigate call, the
\* rejection it caught, whether the page that submitted was already
\* unmounted, and the argument of its last setAuthToken call
Begin(name) ==
  [app EXCEPT !.op = name, !.out = {}, !.nav = None, !.err = NoError,
              !.stale = FALSE, !.lastSet = NoCall]

WithinBounds(s) ==
  /\ s.meFresh + s.meStale <= MaxInflight
  /\ s.sumFresh + s.sumStale <= MaxInflight

Commit(s) == WithinBounds(s) /\ app' = s /\ UNCHANGED <<hl, th, sl, pp, nl, wd, rb, lf, ah, cb, ed, pr, rk, pg>>

\* the state of a page load at path p with t in localStorage
Boot(t, p) ==
  LET s == [stored |-> t, pending |-> FALSE, defHeader |-> NoHeader,
            token |-> t, path |-> p, page |-> None,
            mode |-> "login", fields |-> NoFields, loading |-> FALSE,
            error |-> None, mountFx |-> FALSE, submitPc |-> "idle",
            submitStale |-> FALSE,
            user |-> None, userLoading |-> FALSE, portfolio |-> None,
            portfolioLoading |-> FALSE,
            meFresh |-> 0, meStale |-> 0, sumFresh |-> 0, sumStale |-> 0,
            op |-> "load", out |-> {}, nav |-> None, err |-> NoError,
            stale |-> FALSE, lastSet |-> NoCall]
  IN  Render(s, s, TRUE)

\* HoldingsList and TransactionsHistory are not followed by Spec
HlIdle == [unused |-> TRUE]
ThIdle == [unused |-> TRUE]
\* a component the specification does not follow
Idle == [unused |-> TRUE]

Init ==
  /\ pg = Idle
  /\ rk = Idle
  /\ pr = Idle
  /\ ed = Idle
  /\ cb = Idle
  /\ ah = Idle
  /\ app \in {Boot(t, p) : t \in {None, "t1"}, p \in {"/login", "/"}}
  /\ hl = HlIdle
  /\ th = ThIdle
  /\ sl = Idle
  /\ pp = Idle
  /\ nl = Idle
  /\ wd = Idle
  /\ rb = Idle
  /\ lf = Idle

----------------------------------------------------------------------------
(* Browser *)

\* F5, or a URL typed in the address bar
Reload ==
  \E p \in Paths :
    LET s == Boot(app.stored, p)
    IN  /\ s.op = "load"
        /\ Commit(s)

\* another tab of the application logs in
OtherTabLogin ==
  \E t \in Tokens :
    /\ t # app.stored
    /\ Commit([Begin("otherTabLogin") EXCEPT !.stored = t, !.pending = TRUE])

\* another tab of the application logs out
OtherTabLogout ==
  /\ Truthy(app.stored)
  /\ Commit([Begin("otherTabLogout") EXCEPT !.stored = None, !.pending = TRUE])

\* the 'storage' event reaches this tab
StorageEvent ==
  /\ app.pending
  /\ LET s == [Begin("storage") EXCEPT !.pending = FALSE]
     IN  Commit(Render(app, update(s), FALSE))

----------------------------------------------------------------------------
(* Login.tsx handlers *)

SwitchMode ==
  \E m \in {"login", "register"} :
    /\ app.page = "Login"
    /\ m # app.mode
    /\ Commit([Begin("setMode") EXCEPT !.mode = m, !.error = None])

EditFields ==
  \E f \in [email : BOOLEAN, pass : BOOLEAN, confirm : BOOLEAN, name : BOOLEAN] :
    /\ app.page = "Login"
    /\ f # app.fields
    \* the name input is rendered in register mode only
    /\ app.mode = "login" => f.name = app.fields.name
    /\ Commit([Begin("edit") EXCEPT !.fields = f, !.error = None])

\* useEffect: if a token is stored, navigate('/dashboard')
LoginMountEffect ==
  /\ app.page = "Login"
  /\ app.mountFx
  /\ LET s == [Begin("loginMounted") EXCEPT !.mountFx = FALSE]
     IN  IF Truthy(s.stored)
         THEN Commit(Render(app, [s EXCEPT !.path = "/dashboard",
                                           !.nav = "/dashboard"], FALSE))
         ELSE Commit(s)

\* handleSubmit up to its first await
Submit ==
  /\ app.page = "Login"
  /\ formValid(app)
  /\ ~app.loading
  /\ app.submitPc = "idle"
  /\ LET s == [Begin("submit") EXCEPT !.loading = TRUE, !.error = None,
                                      !.submitPc = app.mode]
     IN  Commit(Send(s, IF app.mode = "login" THEN "/auth/login"
                        ELSE "/auth/register"))

\* state of the submitting page when handleSubmit ends
EndSubmit(s, text) ==
  IF s.submitStale
  THEN [s EXCEPT !.submitPc = "idle", !.submitStale = FALSE, !.stale = TRUE]
  ELSE [s EXCEPT !.submitPc = "idle", !.loading = FALSE,
                 !.error = IF text = None THEN @ ELSE text]

\* handleSubmit after the token is known
AfterToken(s, tok) ==
  IF ~Truthy(tok)
  THEN EndSubmit(s, NoTokenError)
  ELSE EndSubmit([update(s) EXCEPT !.path = "/dashboard",
                                   !.nav = "/dashboard"], None)

\* AuthApi.login resolves
LoginResolve ==
  \E tok \in RespTokens :
    /\ app.submitPc \in {"login", "registerLogin"}
    /\ LET s == update(setAuthToken(Begin(IF app.submitPc = "login"
                                           THEN "loginResolved"
                                           ELSE "autoLoginResolved"), tok))
       IN  Commit(Render(app, AfterToken(s, tok), FALSE))

\* AuthApi.login rejects
LoginReject ==
  \E e \in Errors :
    /\ app.submitPc \in {"login", "registerLogin"}
    /\ LET s == [Begin("loginRejected") EXCEPT !.err = e]
       IN  Commit(EndSubmit(s, SubmitErrorText(e)))

\* AuthApi.register resolves
RegisterResolve ==
  \E tok \in RespTokens :
    /\ app.submitPc = "register"
    /\ LET s == Begin("registerResolved")
       IN  IF ~Truthy(tok)
           THEN Commit(Send([s EXCEPT !.submitPc = "registerLogin"],
                            "/auth/login"))
           ELSE Commit(Render(app, AfterToken(s, tok), FALSE))

\* AuthApi.register rejects
RegisterReject ==
  \E e \in Errors :
    /\ app.submitPc = "register"
    /\ LET s == [Begin("registerRejected") EXCEPT !.err = e]
       IN  Commit(EndSubmit(s, SubmitErrorText(e)))

----------------------------------------------------------------------------
(* AppLayout.tsx handlers *)

\* logout without the 'auth-changed' event
logoutNoEvent(s) == setAuthToken(s, None)

\* AuthApi.logout
logout(s) == update(setAuthToken(s, None))

handleLogout ==
  /\ app.page \in Protected
  /\ LET s == logout(Begin("handleLogout"))
     IN  Commit(Render(app, [s EXCEPT !.path = "/login", !.nav = "/login"], FALSE))

NavLink ==
  \E p \in {"/inicio", "/carteira", "/perfil"} :
    /\ app.page \in Protected
    /\ p # app.path
    /\ Commit(Render(app, [Begin("navLink") EXCEPT !.path = p], FALSE))

\* reloadPortfolio called by a child page
reloadPortfolio ==
  /\ app.page = "PortfolioPage"
  /\ LET s == [Begin("reloadPortfolio") EXCEPT !.portfolioLoading = TRUE,
                                               !.sumFresh = @ + 1]
     IN  Commit(Send(s, "/portfolio/summary"))

\* GET /auth/me resolves
LoadUserResolve ==
  \E fresh \in BOOLEAN :
    LET s == Begin("loadUserDone")
    IN  IF fresh
        THEN /\ app.meFresh > 0
             /\ Commit([s EXCEPT !.meFresh = @ - 1, !.user = "u",
                                 !.userLoading = FALSE])
        ELSE /\ app.meStale > 0
             /\ Commit([s EXCEPT !.meStale = @ - 1])

\* GET /auth/me fails
LoadUserFail ==
  \E fresh \in BOOLEAN :
    /\ IF fresh THEN app.meFresh > 0 ELSE app.meStale > 0
    /\ LET s0 == Begin("loadUserFailed")
           s1 == IF fresh
                 THEN [s0 EXCEPT !.meFresh = @ - 1, !.userLoading = FALSE]
                 ELSE [s0 EXCEPT !.meStale = @ - 1]
           s2 == logout(s1)
       IN  Commit(Render(app, [s2 EXCEPT !.path = "/login", !.nav = "/login"],
                         FALSE))

\* GET /portfolio/summary resolves
SummaryResolve ==
  \E fresh \in BOOLEAN, data \in Portfolios :
    LET s == Begin("summaryDone")
    IN  IF fresh
        THEN /\ app.sumFresh > 0
             /\ Commit([s EXCEPT !.sumFresh = @ - 1, !.portfolio = data,
                                 !.portfolioLoading = FALSE])
        ELSE /\ app.sumStale > 0
             /\ Commit([s EXCEPT !.sumStale = @ - 1])

\* GET /portfolio/summary fails
SummaryFail ==
  \E fresh \in BOOLEAN :
    LET s == Begin("summaryFailed")
    IN  IF fresh
        THEN /\ app.sumFresh > 0
             /\ Commit([s EXCEPT !.sumFresh = @ - 1,
                                 !.portfolioLoading = FALSE])
        ELSE /\ app.sumStale > 0
             /\ Commit([s EXCEPT !.sumStale = @ - 1])

----------------------------------------------------------------------------

Next ==
  \/ Reload
  \/ OtherTabLogin
  \/ OtherTabLogout
  \/ StorageEvent
  \/ SwitchMode
  \/ EditFields
  \/ LoginMountEffect
  \/ Submit
  \/ LoginResolve
  \/ LoginReject
  \/ RegisterResolve
  \/ RegisterReject
  \/ handleLogout
  \/ NavLink
  \/ reloadPortfolio
  \/ LoadUserResolve
  \/ LoadUserFail
  \/ SummaryResolve
  \/ SummaryFail

Spec == Init /\ [][Next]_vars

----------------------------------------------------------------------------
(* Claims on the router, the api client, Login and AppLayout (Spec) *)

\* C1: while the router's token state is null no protected page is rendered:
\* the router rests on /login showing Login; AppLayout and its child pages
\* are rendered only while the token state is non-null.
C1_NoProtectedPageWithoutToken ==
  /\ (~Truthy(app.token) => app.page = "Login" /\ app.path = "/login")
  /\ (app.page \in Protected => Truthy(app.token))

\* a storage event took the token away and the router left a protected page
C1_Witness ==
  app.op = "storage" /\ app.token = None /\ app.page = "Login"

\* C2: every request sent while localStorage holds t carries Bearer t, and
\* every request sent while no token is stored carries no Authorization.
C2_RequestsFollowStoredToken ==
  \A r \in app.out :
    /\ (Truthy(r.stored) => r.auth = Bearer(r.stored))
    /\ (~Truthy(r.stored) => r.auth = NoHeader)

\* C3: after setAuthToken(t) with a non-empty t the stored token is t and the
\* default header is Bearer t; after setAuthToken of undefined or '' nothing
\* is stored and there is no default header.
C3_SetAuthTokenAgreement ==
  app.lastSet # NoCall =>
    IF Truthy(app.lastSet)
    THEN app.stored = app.lastSet /\ app.defHeader = Bearer(app.lastSet)
    ELSE app.stored = None /\ app.defHeader = NoHeader

\* a logout cleared a token that had been set before
C3_Witness ==
  app.op = "handleLogout" /\ app.lastSet = None /\ app.stored = None

\* C4: when AuthApi.login resolves for a submit in login mode, Login calls
\* navigate('/inicio').
C4_LoginNavigatesToInicio ==
  app.op = "loginResolved" => app.nav = "/inicio"

\* C29: when a submit of the Login page ends with navigate (and the
\* 'auth-changed' event), a token is stored in localStorage and the router
\* does not render the Login page again.
C29_LeavesOnlyWithStoredToken ==
  (app.op \in {"loginResolved", "autoLoginResolved", "registerResolved"}
   /\ app.nav = "/dashboard")
    => (Truthy(app.stored) /\ app.page # "Login")

RejectOps == {"loginRejected", "registerRejected"}

\* C5 as stated: a rejected submit shows detail, else message, else the
\* default text; navigate is not called and loading ends false.
C5_ErrorFromDetailMessageDefault ==
  (app.op \in RejectOps /\ ~app.stale) =>
    /\ app.error = Or(app.err.detail, Or(app.err.message, DefaultError))
    /\ app.nav = None
    /\ ~app.loading

\* C5 amended: a rejected submit shows detail, else message, else the
\* error's own message, else the default text; navigate is not called and
\* loading ends false.
C5_ErrorFromDetailMessageErrDefault ==
  (app.op \in RejectOps /\ ~app.stale) =>
    /\ app.error = Or(app.err.detail,
                      Or(app.err.message, Or(app.err.errmsg, DefaultError)))
    /\ app.nav = None
    /\ ~app.loading
    /\ app.submitPc = "idle"

\* a login rejected with only a response message shows that message
C5_Witness ==
  /\ app.op = "loginRejected" /\ ~app.stale
  /\ app.err.detail = "" /\ app.err.message = "Indisponivel"
  /\ app.error = "Indisponivel" /\ app.page = "Login"

\* C6: when 'Sair' is clicked or GET /auth/me fails, the stored token is
\* removed, the router's token state is null and the application rests on
\* /login showing Login; a failed GET /portfolio/summary keeps the session
\* and the portfolio as they were.
C6_SessionEnd ==
  /\ [](app.op \in {"handleLogout", "loadUserFailed"} =>
          /\ app.stored = None /\ app.token = None
          /\ app.path = "/login" /\ app.page = "Login")
  /\ [][app'.op = "summaryFailed" =>
          /\ app'.portfolio = app.portfolio /\ app'.stored = app.stored
          /\ app'.token = app.token /\ app'.page = app.page
          /\ app'.path = app.path]_vars

\* GET /auth/me failed and the session ended on /login
C6_Witness ==
  app.op = "loadUserFailed" /\ app.page = "Login" /\ app.stored = None

----------------------------------------------------------------------------
(* HoldingsList.tsx *)

Symbols == {"A", "B"}

\* the state the router is left in while HoldingsList is followed
AppIdle == Boot("t1", "/carteira")

HlFallback == "Falha ao atualizar preco."

\* getQuoteInfo(h).isFresh: retrieved_at of the quote map entry, else
\* last_price_at of the holding, no older than QUOTE_TTL_MS.  ov is the
\* entry's retrieved_at ("none": null), held the holding's last_price_at.
isFresh(s, sym) ==
  IF s.ov[sym] # None THEN s.ov[sym] = "fresh" ELSE s.held[sym]

markQuotesLoading(s, syms, flag) ==
  [s EXCEPT !.loading = [x \in Symbols |-> IF x \in syms THEN flag ELSE @[x]]]

RefreshReq(syms, silent, bulk) ==
  [kind |-> "refresh", syms |-> syms, silent |-> silent, bulk |-> bulk]

\* refreshQuotes(symbols, options) up to its await; by: who called it
refreshQuotes(s, syms, silent, bulk, by) ==
  IF syms = {} THEN s
  ELSE LET s1 == IF bulk THEN [s EXCEPT !.bulkLoading = TRUE] ELSE s
           s2 == markQuotesLoading(s1, syms, TRUE)
           s3 == IF ~silent THEN [s2 EXCEPT !.quoteError = None] ELSE s2
       IN  [s3 EXCEPT !.inflight = @ \cup {RefreshReq(syms, silent, bulk)},
                      !.out = @ \cup {[ep |-> "refresh", by |-> by]}]

\* the effect that refreshes the quotes that are neither loading nor fresh;
\* it runs after every render that changed quoteMap, holdings or searchOpen
AutoRefresh(s) ==
  IF s.holdings = {} \/ s.searchOpen THEN s
  ELSE LET toRefresh == {x \in s.holdings : ~s.loading[x] /\ ~isFresh(s, x)}
       IN  IF toRefresh = {} THEN s
           ELSE refreshQuotes(s, toRefresh, TRUE, FALSE, "effect")

\* the render after a handler that changed quoteMap, holdings or searchOpen
HlRender(s) == AutoRefresh(s)

\* out, failed and err describe the last step: the requests it sent, the
\* request whose failure it handled, and the rejection it caught
HlBegin(name) ==
  [hl EXCEPT !.out = {}, !.failed = None, !.err = NoError]

HlCommit(s) ==
  /\ s.reloads + Cardinality(s.inflight) <= MaxHlInflight
  /\ hl' = s
  /\ UNCHANGED <<app, th, sl, pp, nl, wd, rb, lf, ah, cb, ed, pr, rk, pg>>

\* a fresh <HoldingsList holdings={h}/> whose holdings carry last_price_at
\* fresh (f[x]) or not
HlMount(h, f) ==
  HlRender([holdings |-> h, held |-> f,
            ov |-> [x \in Symbols |-> None],
            loading |-> [x \in Symbols |-> FALSE],
            searchOpen |-> FALSE, error |-> None, quoteError |-> None,
            bulkLoading |-> FALSE, editing |-> None, editValid |-> FALSE,
            inflight |-> {}, reloads |-> 0,
            out |-> {}, failed |-> None, err |-> NoError])

InitHoldings ==
  /\ pg = Idle
  /\ rk = Idle
  /\ pr = Idle
  /\ ed = Idle
  /\ cb = Idle
  /\ ah = Idle
  /\ app = AppIdle
  /\ hl \in {HlMount(h, f) : h \in SUBSET Symbols, f \in [Symbols -> BOOLEAN]}
  /\ \A x \in Symbols \ hl.holdings : ~hl.held[x]
  /\ th = ThIdle
  /\ sl = Idle
  /\ pp = Idle
  /\ nl = Idle
  /\ wd = Idle
  /\ rb = Idle
  /\ lf = Idle

\* onRefresh(): PortfolioPage.handleRefresh calls reloadPortfolio
onRefresh(s) == [s EXCEPT !.reloads = @ + 1]

\* the reloaded portfolio reaches the holdings prop: the holdings the
\* backend reports, with last_price_at current (f[x]) or not
HoldingsReloaded ==
  \E h \in SUBSET Symbols, f \in [Symbols -> BOOLEAN] :
    /\ hl.reloads > 0
    /\ \A x \in Symbols \ h : ~f[x]
    /\ LET s == [HlBegin("holdings") EXCEPT
                   !.reloads = @ - 1, !.holdings = h, !.held = f,
                   \* a holding added again has another holding_id
                   !.editing = IF @ \in h THEN @ ELSE None]
       IN  HlCommit(HlRender(s))

\* time passes beyond QUOTE_TTL_MS for the quote of a symbol
QuoteAges ==
  \E x \in Symbols :
    /\ isFresh(hl, x)
    /\ LET s == HlBegin("age")
       IN  HlCommit(IF hl.ov[x] = "fresh"
                    THEN [s EXCEPT !.ov[x] = "old"]
                    ELSE [s EXCEPT !.held[x] = FALSE])

openSearchModal ==
  /\ ~hl.searchOpen
  /\ HlCommit(HlRender([HlBegin("openSearch") EXCEPT !.searchOpen = TRUE]))

closeSearchModal ==
  /\ hl.searchOpen
  /\ HlCommit(HlRender([HlBegin("closeSearch") EXCEPT !.searchOpen = FALSE]))

handleRowRefresh ==
  \E x \in hl.holdings :
    /\ ~hl.loading[x]
    /\ hl.editing # x
    /\ RefreshReq({x}, FALSE, FALSE) \notin hl.inflight
    /\ HlCommit(HlRender(refreshQuotes(HlBegin("rowRefresh"), {x},
                                       FALSE, FALSE, "user")))

handleRefreshAll ==
  /\ ~hl.bulkLoading
  /\ hl.holdings # {}
  /\ RefreshReq(hl.holdings, FALSE, TRUE) \notin hl.inflight
  /\ HlCommit(HlRender(refreshQuotes(HlBegin("refreshAll"), hl.holdings,
                                     FALSE, TRUE, "user")))

\* POST /prices/refresh resolves; got[x]: data.quotes carries x with a
\* current retrieved_at
RefreshResolve ==
  \E r \in hl.inflight, got \in [Symbols -> BOOLEAN] :
    /\ r.kind = "refresh"
    /\ LET s0 == [HlBegin("refreshDone") EXCEPT !.inflight = @ \ {r}]
           s1 == [s0 EXCEPT
                    !.ov = [x \in Symbols |->
                              IF x \in r.syms
                              THEN IF got[x] THEN "fresh" ELSE None
                              ELSE @[x]],
                    !.loading = [x \in Symbols |->
                                   IF x \in r.syms THEN FALSE ELSE @[x]]]
           s2 == IF ~r.silent THEN onRefresh(s1) ELSE s1
           s3 == IF r.bulk THEN [s2 EXCEPT !.bulkLoading = FALSE] ELSE s2
       IN  /\ \A x \in Symbols \ r.syms : ~got[x]
           /\ HlCommit(HlRender(s3))

\* POST /prices/refresh fails
RefreshFail ==
  \E r \in hl.inflight, e \in Errors :
    /\ r.kind = "refresh"
    /\ e.message = None /\ e.errmsg = None
    /\ LET s0 == [HlBegin("refreshFailed") EXCEPT !.inflight = @ \ {r},
                                                  !.failed = "refresh",
                                                  !.err = e]
           s1 == IF ~r.silent
                 THEN [s0 EXCEPT !.quoteError = Or(e.detail, HlFallback)]
                 ELSE s0
           s2 == markQuotesLoading(s1, r.syms, FALSE)
           s3 == IF r.bulk THEN [s2 EXCEPT !.bulkLoading = FALSE] ELSE s2
       IN  HlCommit(HlRender(s3))

\* deleteHolding(id) up to its await
deleteHolding ==
  \E x \in hl.holdings :
    /\ hl.editing # x
    /\ [kind |-> "delete", id |-> x] \notin hl.inflight
    /\ LET s == HlBegin("delete")
       IN  HlCommit([s EXCEPT
                       !.inflight = @ \cup {[kind |-> "delete", id |-> x]},
                       !.out = {[ep |-> "delete", by |-> "user"]}])

\* DELETE /holdings/{id} resolves
DeleteResolve ==
  \E r \in hl.inflight :
    /\ r.kind = "delete"
    /\ LET s == [HlBegin("deleteDone") EXCEPT !.inflight = @ \ {r}]
       IN  HlCommit(onRefresh(s))

\* DELETE /holdings/{id} fails
DeleteFail ==
  \E r \in hl.inflight, e \in Errors :
    /\ r.kind = "delete"
    /\ e.message = None /\ e.errmsg = None
    /\ HlCommit([HlBegin("deleteFailed") EXCEPT !.inflight = @ \ {r},
                                                !.failed = "delete",
                                                !.err = e])

startEdit ==
  \E x \in hl.holdings :
    /\ hl.editing # x
    /\ HlCommit([HlBegin("startEdit") EXCEPT !.editing = x,
                                             !.editValid = TRUE,
                                             !.error = None])

cancelEdit ==
  /\ hl.editing # None
  /\ HlCommit([HlBegin("cancelEdit") EXCEPT !.editing = None])

\* the edit inputs are typed in; v: both parse to numbers > 0
EditInputs ==
  \E v \in BOOLEAN :
    /\ hl.editing \in hl.holdings
    /\ v # hl.editValid
    /\ HlCommit([HlBegin("editInputs") EXCEPT !.editValid = v])

\* saveEdit(id) up to its await
saveEdit ==
  /\ hl.editing \in hl.holdings
  /\ LET s == HlBegin("saveEdit")
         r == [kind |-> "put", id |-> hl.editing]
     IN  IF ~hl.editValid
         THEN HlCommit([s EXCEPT
                !.error = "Quantidade e preco total devem ser numeros > 0."])
         ELSE /\ r \notin hl.inflight
              /\ HlCommit([s EXCEPT !.inflight = @ \cup {r},
                                    !.out = {[ep |-> "put", by |-> "user"]}])

\* PUT /holdings/{id} resolves
SaveResolve ==
  \E r \in hl.inflight :
    /\ r.kind = "put"
    /\ LET s == [HlBegin("saveDone") EXCEPT !.inflight = @ \ {r},
                                            !.editing = None]
       IN  HlCommit(onRefresh(s))

\* PUT /holdings/{id} fails
SaveFail ==
  \E r \in hl.inflight, e \in Errors :
    /\ r.kind = "put"
    /\ e.message = None /\ e.errmsg = None
    /\ HlCommit([HlBegin("saveFailed") EXCEPT !.inflight = @ \ {r},
                                              !.failed = "put",
                                              !.err = e])

NextHoldings ==
  \/ HoldingsReloaded
  \/ QuoteAges
  \/ openSearchModal
  \/ closeSearchModal
  \/ handleRowRefresh
  \/ handleRefreshAll
  \/ RefreshResolve
  \/ RefreshFail
  \/ deleteHolding
  \/ DeleteResolve
  \/ DeleteFail
  \/ startEdit
  \/ cancelEdit
  \/ EditInputs
  \/ saveEdit
  \/ SaveResolve
  \/ SaveFail

SpecHoldings == InitHoldings /\ [][NextHoldings]_vars

----------------------------------------------------------------------------
(* Claims on HoldingsList (SpecHoldings) *)

\* C7: a step that handles a failed request re-issues no request: a failed
\* request is sent again only by a user action.
C7_NoAutomaticRetry ==
  hl.failed # None => \A r \in hl.out : r.ep # hl.failed

\* C8: every failed request leaves the component showing an error message:
\* the response's detail when present, otherwise a default text.  Stated
\* for the operations of HoldingsList the claim names: deleting a holding
\* and saving an edited holding.
C8_FailureShowsMessage ==
  hl.failed \in {"delete", "put"} =>
    \/ (Truthy(hl.err.detail) /\ hl.err.detail \in {hl.error, hl.quoteError})
    \/ (~Truthy(hl.err.detail) /\ (hl.error # None \/ hl.quoteError # None))

----------------------------------------------------------------------------
(* TransactionsHistory (Chatbox.tsx, lines 117-743) *)

TxIds == {1, 2}
NoTx == 0

StatusFilters == {"active", "all"}

ThFallback == "Falha ao carregar historico."
EditFallback == "Nao foi possivel atualizar a transacao."
VoidFallback == "Nao foi possivel anular a transacao."
QtyError == "Quantidade deve ser maior que zero."

\* data.items of GET /portfolio/transactions for a status filter: the status
\* of each transaction returned ("absent": not returned); every transaction
\* fits the page
Items(srv, f) ==
  [i \in TxIds |-> IF f = "all" \/ srv[i] = f THEN srv[i] ELSE "absent"]

ListRequest == [method |-> "GET", ep |-> "list", id |-> NoTx, status |-> None]

\* api.patch(`/portfolio/transactions/${editingTx.id}`, payload); status is
\* the status the transaction has when the request leaves
PatchRequest(s, i) ==
  [method |-> "PATCH", ep |-> "tx", id |-> i, status |-> s.srv[i]]

\* a request that removes the transaction
VoidRequestDeletes(s, i) ==
  [method |-> "DELETE", ep |-> "tx", id |-> i, status |-> s.srv[i]]

\* api.post(`/portfolio/transactions/${voidingTx.id}/void`, payload)
VoidRequest(s, i) ==
  [method |-> "POST", ep |-> "void", id |-> i, status |-> s.srv[i]]

\* the table with its 'Editar' and 'Anular' buttons is rendered
TableShown(s) ==
  /\ ~s.loading
  /\ ~Truthy(s.error)
  /\ \E i \in TxIds : s.rows[i] # "absent"

\* no modal overlay covers the table
NoDialog(s) == s.editingTx = NoTx /\ s.voidingTx = NoTx

\* fetchTransactions(filters, 0, false) up to its await
fetchStart(s) ==
  [s EXCEPT !.loading = TRUE, !.error = None, !.out = @ \cup {ListRequest}]

\* fetchTransactions after its await: the response, or the rejection
fetchEnd(s, f, ok, e) ==
  IF ok
  THEN [s EXCEPT !.rows = Items(s.srv, f), !.loading = FALSE]
  ELSE [s EXCEPT !.error = Or(e.detail, ThFallback), !.loading = FALSE]

\* out: the requests the last step sent
ThBegin(name) == [th EXCEPT !.out = {}]

ThCommit(s) == th' = s /\ UNCHANGED <<app, hl, sl, pp, nl, wd, rb, lf, ah, cb, ed, pr, rk, pg>>

InitTx ==
  /\ pg = Idle
  /\ rk = Idle
  /\ pr = Idle
  /\ ed = Idle
  /\ cb = Idle
  /\ ah = Idle
  /\ app = AppIdle
  /\ hl = HlIdle
  /\ sl = Idle
  /\ pp = Idle
  /\ nl = Idle
  /\ wd = Idle
  /\ rb = Idle
  /\ lf = Idle
  /\ \E srv \in [TxIds -> {"active", "voided"}] :
       th = [srv |-> srv, applied |-> "active",
             rows |-> [i \in TxIds |-> "absent"],
             loading |-> TRUE, error |-> None, fetches |-> {"active"},
             editingTx |-> NoTx, qtyValid |-> FALSE, editError |-> None,
             savingEdit |-> FALSE,
             editPc |-> [at |-> "idle", id |-> NoTx, f |-> "active"],
             voidingTx |-> NoTx, voidError |-> None, voidLoading |-> FALSE,
             voidPc |-> [at |-> "idle", id |-> NoTx, f |-> "active"],
             out |-> {ListRequest}]

IdlePc == [at |-> "idle", id |-> NoTx, f |-> "active"]

\* applyFilters / clearFilters with another status: the effect fetches
applyFilters ==
  \E f \in StatusFilters :
    /\ f # th.applied
    /\ f \notin th.fetches
    /\ LET s == [ThBegin("applyFilters") EXCEPT !.applied = f,
                                                !.fetches = @ \cup {f}]
       IN  ThCommit(fetchStart(s))

\* 'Tentar novamente', or refreshKey changed
fetchAgain ==
  /\ th.applied \notin th.fetches
  /\ LET s == [ThBegin("fetchAgain") EXCEPT !.fetches = @ \cup {th.applied}]
     IN  ThCommit(fetchStart(s))

\* GET /portfolio/transactions of the effect or the retry button settles
FetchSettles ==
  \E f \in th.fetches, ok \in BOOLEAN, e \in Errors :
    /\ e.message = None /\ e.errmsg = None
    /\ ok => e = NoError
    /\ LET s == [ThBegin("fetchSettled") EXCEPT !.fetches = @ \ {f}]
       IN  ThCommit(fetchEnd(s, f, ok, e))

\* onClick of 'Editar' and the effect that fills the form
openEdit ==
  \E i \in TxIds :
    /\ TableShown(th) /\ NoDialog(th)
    /\ th.rows[i] = "active"
    /\ ThCommit([ThBegin("openEdit") EXCEPT !.editingTx = i,
                                            !.qtyValid = TRUE,
                                            !.editError = None])

\* the close button of the edit dialog (Cancelar is disabled while saving)
closeEdit ==
  /\ th.editingTx # NoTx
  /\ ThCommit([ThBegin("closeEdit") EXCEPT !.editingTx = NoTx])

\* the quantity input of the edit form; v: Number(quantity) > 0
editQuantity ==
  \E v \in BOOLEAN :
    /\ th.editingTx # NoTx
    /\ v # th.qtyValid
    /\ ThCommit([ThBegin("editQuantity") EXCEPT !.qtyValid = v])

\* handleEditSubmit up to its first await
handleEditSubmit ==
  /\ th.editingTx # NoTx
  /\ ~th.savingEdit
  /\ LET s == ThBegin("handleEditSubmit")
     IN  IF ~th.qtyValid
         THEN ThCommit([s EXCEPT !.editError = QtyError,
                                 !.savingEdit = FALSE])
         ELSE ThCommit([s EXCEPT
                !.savingEdit = TRUE, !.editError = None,
                !.editPc = [at |-> "patch", id |-> th.editingTx,
                            f |-> th.applied],
                !.out = {PatchRequest(th, th.editingTx)}])

\* PATCH resolves: handleEditSubmit goes on to await fetchTransactions
PatchResolves ==
  /\ th.editPc.at = "patch"
  /\ LET s == [ThBegin("handleEditSubmit") EXCEPT !.editPc.at = "reload"]
     IN  ThCommit(fetchStart(s))

\* PATCH rejects
PatchRejects ==
  \E e \in Errors :
    /\ e.message = None /\ e.errmsg = None
    /\ th.editPc.at = "patch"
    /\ ThCommit([ThBegin("handleEditSubmit") EXCEPT
                   !.editPc = IdlePc,
                   !.editError = IF e.detail # None THEN e.detail
                                 ELSE EditFallback,
                   !.savingEdit = FALSE])

\* the list fetch awaited by handleEditSubmit settles; onChange() then acts
\* on PortfolioPage only (tsRefreshKey, reloadPortfolio)
EditReloadSettles ==
  \E ok \in BOOLEAN, e \in Errors :
    /\ e.message = None /\ e.errmsg = None
    /\ ok => e = NoError
    /\ th.editPc.at = "reload"
    /\ LET s == fetchEnd(ThBegin("handleEditSubmit"), th.editPc.f, ok, e)
       IN  ThCommit([s EXCEPT !.editPc = IdlePc, !.editingTx = NoTx,
                              !.savingEdit = FALSE])

\* onClick of 'Anular' and the effect that clears the note
openVoid ==
  \E i \in TxIds :
    /\ TableShown(th) /\ NoDialog(th)
    /\ th.rows[i] = "active"
    /\ ThCommit([ThBegin("openVoid") EXCEPT !.voidingTx = i,
                                            !.voidError = None])

\* the close button of the void dialog (Cancelar is disabled while voiding)
closeVoid ==
  /\ th.voidingTx # NoTx
  /\ ThCommit([ThBegin("closeVoid") EXCEPT !.voidingTx = NoTx])

\* handleVoidConfirm up to its first await
handleVoidConfirm ==
  /\ th.voidingTx # NoTx
  /\ ~th.voidLoading
  /\ ThCommit([ThBegin("handleVoidConfirm") EXCEPT
                 !.voidLoading = TRUE, !.voidError = None,
                 !.voidPc = [at |-> "void", id |-> th.voidingTx,
                             f |-> th.applied],
                 !.out = {VoidRequest(th, th.voidingTx)}])

\* POST .../void resolves: the backend marks the transaction voided and
\* handleVoidConfirm goes on to await fetchTransactions
VoidResolves ==
  /\ th.voidPc.at = "void"
  /\ LET s == [ThBegin("handleVoidConfirm") EXCEPT
                 !.voidPc.at = "reload",
                 !.srv[th.voidPc.id] = "voided"]
     IN  ThCommit(fetchStart(s))

\* POST .../void rejects
VoidRejects ==
  \E e \in Errors :
    /\ e.message = None /\ e.errmsg = None
    /\ th.voidPc.at = "void"
    /\ ThCommit([ThBegin("handleVoidConfirm") EXCEPT
                   !.voidPc = IdlePc,
                   !.voidError = IF e.detail # None THEN e.detail
                                 ELSE VoidFallback,
                   !.voidLoading = FALSE])

\* the list fetch awaited by handleVoidConfirm settles
VoidReloadSettles ==
  \E ok \in BOOLEAN, e \in Errors :
    /\ e.message = None /\ e.errmsg = None
    /\ ok => e = NoError
    /\ th.voidPc.at = "reload"
    /\ LET s == fetchEnd(ThBegin("handleVoidConfirm"), th.voidPc.f, ok, e)
       IN  ThCommit([s EXCEPT !.voidPc = IdlePc, !.voidingTx = NoTx,
                              !.voidLoading = FALSE])

NextTx ==
  \/ applyFilters
  \/ fetchAgain
  \/ FetchSettles
  \/ openEdit
  \/ closeEdit
  \/ editQuantity
  \/ handleEditSubmit
  \/ PatchResolves
  \/ PatchRejects
  \/ EditReloadSettles
  \/ openVoid
  \/ closeVoid
  \/ handleVoidConfirm
  \/ VoidResolves
  \/ VoidRejects
  \/ VoidReloadSettles

SpecTx == InitTx /\ [][NextTx]_vars

----------------------------------------------------------------------------
(* Claims on TransactionsHistory (SpecTx) *)

\* C9 as stated: the only request TransactionsHistory sends for an existing
\* transaction is POST /portfolio/transactions/{id}/void.
C9_OnlyVoidRequests ==
  \A r \in th.out : r.id # NoTx => (r.method = "POST" /\ r.ep = "void")

\* C9 amended: the client never hard-deletes a transaction; the requests
\* TransactionsHistory sends for an existing transaction are the edit
\* (PATCH /portfolio/transactions/{id}) and the void
\* (POST /portfolio/transactions/{id}/void), nothing else.
C9_OnlyEditOrVoidRequests ==
  \A r \in th.out :
    /\ r.method # "DELETE"
    /\ r.id # NoTx =>
         \/ (r.method = "PATCH" /\ r.ep = "tx")
         \/ (r.method = "POST" /\ r.ep = "void")
    /\ r.id = NoTx => (r.method = "GET" /\ r.ep = "list")

\* the void of a transaction was requested
C9_Witness ==
  \E r \in th.out : r.ep = "void" /\ r.id \in TxIds /\ th.voidLoading

\* C10: no edit (PATCH) and no void (POST .../void) request is sent for a
\* transaction whose status is 'voided'.
C10_NoRequestForVoided ==
  \A r \in th.out : r.id # NoTx => r.status # "voided"

----------------------------------------------------------------------------
(* HoldingsList.tsx: the sell dialog *)

\* longest string typed into an input of the dialog
MaxLen == 2

\* sell requests in flight that the model follows at once
MaxSellInflight == 2

\* numbers are kept in thousandths
Scale == 1000

\* NaN; no input of the model parses to a negative number
NaN == -1

Chars == {"0", "1", "2", ",", "."}

Digits == <<"0", "1", "2", "3", "4", "5", "6", "7", "8", "9">>

\* the value of a digit character, NaN for another character
DigitVal(c) ==
  IF \E d \in 1..10 : Digits[d] = c
  THEN (CHOOSE d \in 1..10 : Digits[d] = c) - 1 ELSE NaN

\* strings of at most n characters
Strings(n) == UNION {[1..k -> Chars] : k \in 0..n}

\* raw.replace(/\./g, '').replace(',', '.')
Normalize(raw) ==
  LET noDots == SelectSeq(raw, LAMBDA c : c # ".")
      commas == {i \in 1..Len(noDots) : noDots[i] = ","}
  IN  IF commas = {} THEN noDots
      ELSE LET first == CHOOSE i \in commas : \A j \in commas : i <= j
           IN  [i \in 1..Len(noDots) |-> IF i = first THEN "." ELSE noDots[i]]

\* number of digits at the head of str
RECURSIVE LeadingDigits(_)
LeadingDigits(str) ==
  IF str = <<>> \/ DigitVal(Head(str)) = NaN THEN 0
  ELSE 1 + LeadingDigits(Tail(str))

\* value of a string of digits
RECURSIVE DigitsValue(_)
DigitsValue(str) ==
  IF str = <<>> THEN 0
  ELSE DigitsValue(SubSeq(str, 1, Len(str) - 1)) * 10
       + DigitVal(str[Len(str)])

\* 10^n
RECURSIVE Pow10(_)
Pow10(n) == IF n = 0 THEN 1 ELSE 10 * Pow10(n - 1)

\* parseFloat(str), in thousandths: the digits, a point and the digits after
\* it, read from the head of str; NaN without a digit
parseFloat(str) ==
  LET i    == LeadingDigits(str)
      rest == SubSeq(str, i + 1, Len(str))
      j    == IF rest # <<>> /\ Head(rest) = "."
              THEN LeadingDigits(Tail(rest)) ELSE 0
      frac == SubSeq(str, i + 2, i + 1 + j)
  IN  IF i = 0 /\ j = 0 THEN NaN
      ELSE DigitsValue(SubSeq(str, 1, i)) * Scale
           + (DigitsValue(frac) * Scale) \div Pow10(j)

toNumber(raw) == parseFloat(Normalize(raw))



\* the decimal digits of a natural number
RECURSIVE NatStr(_)
NatStr(n) ==
  IF n < 10 THEN <<Digits[n + 1]>>
  ELSE NatStr(n \div 10) \o <<Digits[(n % 10) + 1]>>

\* the digits after the point of String(x): no trailing zero
RECURSIVE FracStr(_, _)
FracStr(f, width) ==
  IF f = 0 THEN <<>>
  ELSE <<Digits[(f \div Pow10(width - 1)) + 1]>>
       \o FracStr(f % Pow10(width - 1), width - 1)

\* String(x) of a number x >= 0 kept in thousandths
String(x) ==
  IF x % Scale = 0 THEN NatStr(x \div Scale)
  ELSE NatStr(x \div Scale) \o <<".">> \o FracStr(x % Scale, 3)

\* x.toFixed(2).replace('.', ',')
toFixed2Comma(x) ==
  LET h == (x + 5) \div 10
  IN  NatStr(h \div 100) \o <<",">> \o <<Digits[((h % 100) \div 10) + 1]>>
      \o <<Digits[(h % 10) + 1]>>

\* longest string typed into the price input
MaxPriceLen == 1

\* sellDate: '' or a day; the local day of today
EmptyDate == 0
Today == 2
Dates == {EmptyDate, Today - 1, Today, Today + 1}

\* hours the local time is ahead of UTC
Offsets == {-3, 0, 2}

\* isFutureDate(dateStr): new Date('YYYY-MM-DD') is midnight UTC of that day;
\* setHours(0, 0, 0, 0) moves it to the local midnight before it
isFutureDate(d, off) ==
  IF d = EmptyDate THEN FALSE
  ELSE ((d * 24 + off) \div 24) > Today

\* holding.quantity, and holding.last_price ?? holding.avg_price
Quantities == {1000, 1200}
DefaultPrice == 1200


\* the text handleSell sets as sellError, None when the form passes
SellCheck(s) ==
  LET qty   == toNumber(s.sellQty)
      price == toNumber(s.sellPrice)
  IN  IF qty = NaN \/ qty <= 0 THEN "Informe uma quantidade valida."
      ELSE IF price = NaN \/ price <= 0 THEN "Informe um valor de venda valido."
      ELSE IF qty > s.quantity THEN "Quantidade maior que a posicao disponivel."
      ELSE IF s.sellDate = EmptyDate \/ isFutureDate(s.sellDate, s.off)
           THEN "A data de venda nao pode ser futura."
      ELSE None

\* api.post(`/holdings/${sellTarget.holding_id}/sell`, ...); others: the
\* sell requests in flight when it leaves
SellRequest(s) ==
  [quantity |-> toNumber(s.sellQty), price |-> toNumber(s.sellPrice),
   sale_date |-> s.sellDate, held |-> s.quantity, others |-> s.inflight]

\* out: the requests the last step sent; checked: the last step was a
\* handleSell, with the open flag and the form it found
SlBegin(name) ==
  [sl EXCEPT !.out = {}, !.checked = FALSE]

SlCommit(s) ==
  /\ s.inflight <= MaxSellInflight
  /\ sl' = s
  /\ UNCHANGED <<app, hl, th, pp, nl, wd, rb, lf, ah, cb, ed, pr, rk, pg>>

InitSell ==
  /\ pg = Idle
  /\ rk = Idle
  /\ pr = Idle
  /\ ed = Idle
  /\ cb = Idle
  /\ ah = Idle
  /\ app = AppIdle
  /\ hl = HlIdle
  /\ th = ThIdle
  /\ pp = Idle
  /\ nl = Idle
  /\ wd = Idle
  /\ rb = Idle
  /\ lf = Idle
  /\ \E q \in Quantities, off \in Offsets :
       sl = [quantity |-> q, off |-> off, sellTarget |-> FALSE,
             sellQty |-> <<>>, sellPrice |-> <<>>, sellDate |-> Today,
             sellError |-> None, sellLoading |-> FALSE, inflight |-> 0,
             out |-> {}, checked |-> FALSE]

\* onClick of 'Vender'; the rows are under the overlay while a dialog is open
openSellModal ==
  /\ ~sl.sellTarget
  /\ SlCommit([SlBegin("openSellModal") EXCEPT
                 !.sellTarget = TRUE,
                 !.sellQty = String(sl.quantity),
                 !.sellPrice = toFixed2Comma(DefaultPrice),
                 !.sellDate = Today,
                 !.sellError = None,
                 !.sellLoading = FALSE])

\* the 'x' of the dialog ('Cancelar' does the same, disabled while
\* sellLoading)
closeSellModal ==
  /\ sl.sellTarget
  /\ SlCommit([SlBegin("closeSellModal") EXCEPT !.sellTarget = FALSE])

setSellQty ==
  \E raw \in Strings(MaxLen) :
    /\ sl.sellTarget
    /\ raw # sl.sellQty
    /\ SlCommit([SlBegin("setSellQty") EXCEPT !.sellQty = raw])

setSellPrice ==
  \E raw \in Strings(MaxPriceLen) :
    /\ sl.sellTarget
    /\ raw # sl.sellPrice
    /\ SlCommit([SlBegin("setSellPrice") EXCEPT !.sellPrice = raw])

setSellDate ==
  \E d \in Dates :
    /\ sl.sellTarget
    /\ d # sl.sellDate
    /\ SlCommit([SlBegin("setSellDate") EXCEPT !.sellDate = d])

\* handleSell up to its await; 'Confirmar venda' is disabled while
\* sellLoading
handleSell ==
  /\ sl.sellTarget
  /\ ~sl.sellLoading
  /\ LET s == [SlBegin("handleSell") EXCEPT !.checked = TRUE]
     IN  IF SellCheck(sl) # None
         THEN SlCommit([s EXCEPT !.sellError = SellCheck(sl)])
         ELSE SlCommit([s EXCEPT !.sellLoading = TRUE,
                                 !.inflight = @ + 1,
                                 !.out = {SellRequest(sl)}])

\* POST /holdings/{id}/sell resolves
SellResolves ==
  /\ sl.inflight > 0
  /\ SlCommit([SlBegin("sellDone") EXCEPT !.inflight = @ - 1,
                                          !.sellTarget = FALSE,
                                          !.sellLoading = FALSE])

\* POST /holdings/{id}/sell fails
SellRejects ==
  \E e \in Errors :
    /\ e.message = None /\ e.errmsg = None
    /\ sl.inflight > 0
    /\ SlCommit([SlBegin("sellFailed") EXCEPT
                   !.inflight = @ - 1,
                   !.sellError = Or(e.detail, "Falha ao registrar venda."),
                   !.sellLoading = FALSE])

NextSell ==
  \/ openSellModal
  \/ closeSellModal
  \/ setSellQty
  \/ setSellPrice
  \/ setSellDate
  \/ handleSell
  \/ SellResolves
  \/ SellRejects

SpecSell == InitSell /\ [][NextSell]_vars

----------------------------------------------------------------------------
(* Claims on the sell dialog (SpecSell) *)

\* C11: handleSell sends POST /holdings/{id}/sell only with 0 < quantity <=
\* the holding's quantity, a price > 0 and a sale date that is set and not
\* after today, and never while another sell request is in flight; in every
\* other case it sets sellError, sends nothing and leaves the dialog open.
C11_SellOnlyWhenValid ==
  /\ \A r \in sl.out :
       /\ 0 < r.quantity /\ r.quantity <= r.held
       /\ r.price > 0
       /\ r.sale_date # EmptyDate /\ r.sale_date <= Today
       /\ r.others = 0
  /\ (sl.checked /\ sl.out = {}) => (sl.sellError # None /\ sl.sellTarget)

----------------------------------------------------------------------------
(* PortfolioPage (src/unnamed/part_002) with the search modal of HoldingsList *)

\* onRefresh and onChange events the model follows
MaxEvents == 3

\* {portfolio ? <HoldingsList .../> : <p>Sem ativos para exibir.</p>}
PageBody(s) == IF s.portfolio THEN "HoldingsList" ELSE "Sem ativos para exibir."

\* a 'Buscar no Yahoo' button that is never disabled
SearchEnabledAlways(s) == TRUE

\* disabled={!openSearch}
SearchEnabled(s) == s.openSearch

\* refreshes, changes and calls count the onRefresh events settled, the
\* onChange events and the reloadPortfolio calls so far; op is the last step
PpCommit(s, name) ==
  /\ s.pending + s.refreshes + s.changes <= MaxEvents
  /\ pp' = [s EXCEPT !.op = name]
  /\ UNCHANGED <<app, hl, th, sl, nl, wd, rb, lf, ah, cb, ed, pr, rk, pg>>

InitPage ==
  /\ pg = Idle
  /\ rk = Idle
  /\ pr = Idle
  /\ ed = Idle
  /\ cb = Idle
  /\ ah = Idle
  /\ app = AppIdle
  /\ hl = HlIdle
  /\ th = ThIdle
  /\ sl = Idle
  /\ nl = Idle
  /\ wd = Idle
  /\ rb = Idle
  /\ lf = Idle
  /\ pp = [portfolio |-> FALSE, registerFx |-> FALSE, openSearch |-> FALSE,
           txRefreshKey |-> 0, tsRefreshKey |-> 0, pending |-> 0,
           searchOpen |-> FALSE, searchTerm |-> "", searchResults |-> {},
           searchError |-> None, searchLoading |-> FALSE,
           refreshes |-> 0, changes |-> 0, calls |-> 0, op |-> "mount"]

\* the portfolio of AppLayout arrives: HoldingsList mounts
PortfolioLoaded ==
  /\ ~pp.portfolio
  /\ PpCommit([pp EXCEPT !.portfolio = TRUE, !.registerFx = TRUE], "loaded")

\* the effect of HoldingsList: onRegisterSearchTrigger(openSearchModal)
registerSearchTrigger ==
  /\ pp.registerFx
  /\ PpCommit([pp EXCEPT !.registerFx = FALSE, !.openSearch = TRUE],
              "registerSearchTrigger")

\* handleTransactionsChanged that moves both keys
handleTransactionsChangedBoth(s) ==
  [s EXCEPT !.tsRefreshKey = @ + 1, !.txRefreshKey = @ + 1,
            !.calls = @ + 1, !.changes = @ + 1]

\* onChange of TransactionsHistory
handleTransactionsChanged(s) ==
  [s EXCEPT !.tsRefreshKey = @ + 1, !.calls = @ + 1, !.changes = @ + 1]

TransactionsChanged ==
  PpCommit(handleTransactionsChanged(pp), "onChange")

\* onRefresh of HoldingsList: handleRefresh up to the settling of
\* reloadPortfolio()
handleRefresh ==
  /\ PageBody(pp) = "HoldingsList"
  /\ PpCommit([pp EXCEPT !.pending = @ + 1, !.calls = @ + 1], "onRefresh")

\* reloadPortfolio() settles, with the summary or with its failure logged:
\* the finally callback of handleRefresh
RefreshSettles ==
  \E ok \in BOOLEAN :
    /\ pp.pending > 0
    /\ PpCommit([pp EXCEPT !.pending = @ - 1, !.refreshes = @ + 1,
                           !.txRefreshKey = @ + 1, !.tsRefreshKey = @ + 1],
                IF ok THEN "reloaded" ELSE "reloadFailed")

\* onClick of 'Buscar no Yahoo': openSearch?.() is openSearchModal
clickSearch ==
  /\ SearchEnabled(pp)
  /\ ~pp.searchOpen
  /\ PpCommit(IF PageBody(pp) = "HoldingsList"
              THEN [pp EXCEPT !.searchOpen = TRUE, !.searchTerm = "",
                              !.searchResults = {}, !.searchError = None]
              ELSE pp, "clickSearch")

setSearchTerm ==
  \E term \in {"", "PETR"} :
    /\ pp.searchOpen
    /\ term # pp.searchTerm
    /\ PpCommit([pp EXCEPT !.searchTerm = term], "setSearchTerm")

\* handleSearch up to its await
handleSearch ==
  /\ pp.searchOpen
  /\ ~pp.searchLoading
  /\ PpCommit(IF pp.searchTerm = ""
              THEN [pp EXCEPT !.searchError = "Informe o ticker ou parte do nome.",
                              !.searchResults = {}]
              ELSE [pp EXCEPT !.searchLoading = TRUE, !.searchError = None],
              "handleSearch")

\* GET /assets/search settles
SearchSettles ==
  \E data \in SUBSET {"PETR4.SA"}, ok \in BOOLEAN :
    /\ pp.searchLoading
    /\ PpCommit(IF ok
                THEN [pp EXCEPT !.searchResults = data, !.searchLoading = FALSE]
                ELSE [pp EXCEPT !.searchError = "Nao foi possivel consultar o Yahoo Finance.",
                                !.searchResults = {}, !.searchLoading = FALSE],
                "searchSettled")

\* the 'x' of the search modal, or a result chosen
closeSearch ==
  \E chosen \in BOOLEAN :
    /\ pp.searchOpen
    /\ chosen => pp.searchResults # {}
    /\ PpCommit(IF chosen
                THEN [pp EXCEPT !.searchOpen = FALSE, !.searchResults = {}]
                ELSE [pp EXCEPT !.searchOpen = FALSE], "closeSearch")

NextPage ==
  \/ PortfolioLoaded
  \/ registerSearchTrigger
  \/ TransactionsChanged
  \/ handleRefresh
  \/ RefreshSettles
  \/ clickSearch
  \/ setSearchTerm
  \/ handleSearch
  \/ SearchSettles
  \/ closeSearch

SpecPage == InitPage /\ [][NextPage]_vars

----------------------------------------------------------------------------
(* Claims on PortfolioPage (SpecPage) *)

\* C12: both keys start at 0; an onRefresh calls reloadPortfolio once and,
\* when that call settles, adds 1 to both keys; an onChange adds 1 to the
\* chart key only and calls reloadPortfolio once; so the keys never decrease
\* and the chart key minus the transactions key is the number of onChange
\* events.
C12_RefreshKeys ==
  /\ [](/\ pp.txRefreshKey = pp.refreshes
        /\ pp.tsRefreshKey = pp.refreshes + pp.changes
        /\ pp.tsRefreshKey - pp.txRefreshKey = pp.changes
        /\ pp.calls = pp.refreshes + pp.pending + pp.changes)
  /\ [][/\ pp'.txRefreshKey >= pp.txRefreshKey
        /\ pp'.tsRefreshKey >= pp.tsRefreshKey
        /\ pp'.op = "onRefresh" =>
             /\ pp'.calls = pp.calls + 1
             /\ pp'.txRefreshKey = pp.txRefreshKey
             /\ pp'.tsRefreshKey = pp.tsRefreshKey
        /\ pp'.op \in {"reloaded", "reloadFailed"} =>
             /\ pp'.txRefreshKey = pp.txRefreshKey + 1
             /\ pp'.tsRefreshKey = pp.tsRefreshKey + 1
        /\ pp'.op = "onChange" =>
             /\ pp'.calls = pp.calls + 1
             /\ pp'.txRefreshKey = pp.txRefreshKey
             /\ pp'.tsRefreshKey = pp.tsRefreshKey + 1]_vars

\* an onChange came after an onRefresh whose reload had settled
C12_Witness ==
  pp.op = "onChange" /\ pp.txRefreshKey = 1 /\ pp.tsRefreshKey = 2

\* C13: without a portfolio the page shows the placeholder and no
\* HoldingsList and 'Buscar no Yahoo' is disabled; the button is enabled only
\* once a mounted HoldingsList has registered its trigger, and a click then
\* opens the search modal with empty term, results and error.
C13_SearchTrigger ==
  /\ ~pp.portfolio =>
       /\ PageBody(pp) = "Sem ativos para exibir."
       /\ ~SearchEnabled(pp)
  /\ SearchEnabled(pp) =>
       /\ PageBody(pp) = "HoldingsList"
       /\ ~pp.registerFx
  /\ pp.op = "clickSearch" =>
       /\ pp.searchOpen /\ pp.searchTerm = ""
       /\ pp.searchResults = {} /\ pp.searchError = None

\* the modal was closed and opened again while a search was in flight
C13_Witness ==
  pp.op = "clickSearch" /\ pp.searchOpen /\ pp.searchLoading

----------------------------------------------------------------------------
(* NewsList.tsx *)

\* items of a response, and words of a sentiment label
MaxItems == 1
MaxWords == 2

\* a label is kept as the words it is made of
Words == {"POSITIVO", "negativo", "misto"}

\* toLowerCase, word by word
toLowerCase(label) ==
  [i \in 1..Len(label) |->
     IF label[i] = "POSITIVO" THEN "positivo" ELSE label[i]]

\* str.includes(word)
includes(str, word) == \E i \in 1..Len(str) : str[i] = word

\* item.sentiment: missing, without a label, or with one
Sentiments ==
  {[present |-> FALSE, labelled |-> FALSE, label |-> <<>>],
   [present |-> TRUE, labelled |-> FALSE, label |-> <<>>]}
  \cup {[present |-> TRUE, labelled |-> TRUE, label |-> l] :
          l \in UNION {[1..k -> Words] : k \in 0..MaxWords}}

\* mapSentiment that compares without lowering the label
mapSentimentCaseSensitive(sentiment) ==
  IF ~sentiment.present THEN [label |-> "Indefinido", tone |-> "neutral"]
  ELSE LET normalized == IF sentiment.labelled THEN sentiment.label
                         ELSE <<"neutro">>
       IN  IF includes(normalized, "positivo")
           THEN [label |-> "Positivo", tone |-> "positive"]
           ELSE IF includes(normalized, "negativo")
           THEN [label |-> "Negativo", tone |-> "negative"]
           ELSE [label |-> "Neutro", tone |-> "neutral"]

mapSentiment(sentiment) ==
  IF ~sentiment.present THEN [label |-> "Indefinido", tone |-> "neutral"]
  ELSE LET normalized == IF sentiment.labelled
                         THEN toLowerCase(sentiment.label)
                         ELSE <<"neutro">>
       IN  IF includes(normalized, "positivo")
           THEN [label |-> "Positivo", tone |-> "positive"]
           ELSE IF includes(normalized, "negativo")
           THEN [label |-> "Negativo", tone |-> "negative"]
           ELSE [label |-> "Neutro", tone |-> "neutral"]

\* response.data of GET /news/portfolio: symbols and items may be missing
\* (hasSymbols: symbols is there and not empty; items: the sentiments of
\* data.items, <<>> when missing or empty)
Responses ==
  [hasSymbols : BOOLEAN,
   items : UNION {[1..k -> Sentiments] : k \in 0..MaxItems}]

\* the render without the error branch
NewsViewNoError(s) ==
  IF ~s.loaded THEN [kind |-> "skeleton", cards |-> <<>>]
  ELSE IF s.data.items = <<>>
  THEN [kind |-> IF ~s.data.hasSymbols THEN "Adicione ativos"
                 ELSE "Nenhuma noticia nos ultimos 7 dias",
        cards |-> <<>>]
  ELSE [kind |-> "cards",
        cards |-> [i \in 1..Len(s.data.items) |-> mapSentiment(s.data.items[i])]]

\* what NewsList renders; loaded: data is not null
NewsView(s) ==
  IF ~s.loaded THEN [kind |-> "skeleton", cards |-> <<>>]
  ELSE IF s.data.items = <<>>
  THEN [kind |-> IF s.error THEN "Nao foi possivel carregar as noticias"
                 ELSE IF ~s.data.hasSymbols THEN "Adicione ativos"
                 ELSE "Nenhuma noticia nos ultimos 7 dias",
        cards |-> <<>>]
  ELSE [kind |-> "cards",
        cards |-> [i \in 1..Len(s.data.items) |-> mapSentiment(s.data.items[i])]]

\* live: the request of the mounted NewsList is in flight; stale: requests
\* of unmounted ones in flight; gets: requests sent since the mount; op: the
\* last step
NlCommit(s, name) ==
  /\ s.stale <= MaxInflight
  /\ nl' = [s EXCEPT !.op = name]
  /\ UNCHANGED <<app, hl, th, sl, pp, wd, rb, lf, ah, cb, ed, pr, rk, pg>>

\* a fresh <NewsList/> and its effect
NewsMount(stale) ==
  [mounted |-> TRUE, loaded |-> FALSE,
   data |-> [hasSymbols |-> FALSE, items |-> <<>>], error |-> FALSE,
   live |-> TRUE, stale |-> stale, gets |-> 1, ok |-> FALSE, op |-> "mount"]

InitNews ==
  /\ pg = Idle
  /\ rk = Idle
  /\ pr = Idle
  /\ ed = Idle
  /\ cb = Idle
  /\ ah = Idle
  /\ app = Boot("t1", "/inicio")
  /\ hl = HlIdle
  /\ th = ThIdle
  /\ sl = Idle
  /\ pp = Idle
  /\ wd = Idle
  /\ rb = Idle
  /\ lf = Idle
  /\ nl = NewsMount(0)

\* the Dashboard is left: the cleanup of the effect sets alive = false
NewsUnmount ==
  /\ nl.mounted
  /\ NlCommit([nl EXCEPT !.mounted = FALSE, !.loaded = FALSE,
                         !.data = [hasSymbols |-> FALSE, items |-> <<>>],
                         !.error = FALSE, !.live = FALSE, !.gets = 0,
                         !.stale = @ + (IF nl.live THEN 1 ELSE 0)],
              "unmount")

NewsRemount ==
  /\ ~nl.mounted
  /\ NlCommit(NewsMount(nl.stale), "mount")

\* GET /news/portfolio resolves for the mounted NewsList
NewsResolves ==
  \E data \in Responses :
    /\ nl.live
    /\ NlCommit([nl EXCEPT !.live = FALSE, !.loaded = TRUE,
                           !.data = data, !.ok = TRUE], "resolved")

\* GET /news/portfolio fails for the mounted NewsList
NewsRejects ==
  /\ nl.live
  /\ NlCommit([nl EXCEPT !.live = FALSE, !.loaded = TRUE,
                         !.data = [hasSymbols |-> FALSE, items |-> <<>>],
                         !.error = TRUE], "rejected")

\* the request of an unmounted NewsList settles: alive is false
NewsStaleSettles ==
  /\ nl.stale > 0
  /\ NlCommit([nl EXCEPT !.stale = @ - 1], "staleSettled")

NextNews ==
  \/ NewsUnmount
  \/ NewsRemount
  \/ NewsResolves
  \/ NewsRejects
  \/ NewsStaleSettles

SpecNews == InitNews /\ [][NextNews]_vars

----------------------------------------------------------------------------
(* Claims on NewsList (SpecNews) *)

\* C14: a mounted NewsList has sent exactly one GET /news/portfolio, shows
\* the skeleton while it is in flight and then exactly one of: the cards
\* (items not empty), the failure message (request failed), 'Adicione
\* ativos' (no symbols, no items), 'Nenhuma noticia' (symbols, no items); a
\* settlement that arrives after the unmount changes no state.
C14_OneRequestOneView ==
  /\ [](nl.mounted =>
          /\ nl.gets = 1
          /\ nl.live => NewsView(nl).kind = "skeleton"
          /\ ~nl.live =>
               NewsView(nl).kind =
                 IF ~nl.ok THEN "Nao foi possivel carregar as noticias"
                 ELSE IF nl.data.items # <<>> THEN "cards"
                 ELSE IF ~nl.data.hasSymbols THEN "Adicione ativos"
                 ELSE "Nenhuma noticia nos ultimos 7 dias")
  /\ [][nl'.op = "staleSettled" =>
          /\ nl'.mounted = nl.mounted /\ nl'.loaded = nl.loaded
          /\ nl'.data = nl.data /\ nl'.error = nl.error
          /\ NewsView(nl') = NewsView(nl)]_vars

\* the request of a second mount failed while the first one's was pending
C14_Witness ==
  nl.op = "rejected" /\ nl.stale > 0 /\ nl.error

\* C15: a missing sentiment gives 'Indefinido'/neutral; otherwise a label
\* containing 'positivo' in any case gives 'Positivo'/positive, else one
\* containing 'negativo' gives 'Negativo'/negative, and any other label, or
\* none, gives 'Neutro'/neutral; every card carries one of these tones.
C15_MapSentimentTotal ==
  LET v == NewsView(nl)
      has(l, w) == \E i \in 1..Len(l) : toLowerCase(l)[i] = w
  IN  v.kind = "cards" =>
        /\ Len(v.cards) = Len(nl.data.items)
        /\ \A i \in 1..Len(v.cards) :
             LET sn == nl.data.items[i]
                 c  == v.cards[i]
             IN  /\ c.tone \in {"positive", "negative", "neutral"}
                 /\ ~sn.present => c = [label |-> "Indefinido", tone |-> "neutral"]
                 /\ (sn.present /\ sn.labelled /\ has(sn.label, "positivo")) =>
                      c = [label |-> "Positivo", tone |-> "positive"]
                 /\ (sn.present /\ sn.labelled /\ ~has(sn.label, "positivo")
                     /\ has(sn.label, "negativo")) =>
                      c = [label |-> "Negativo", tone |-> "negative"]
                 /\ (sn.present /\ (~sn.labelled \/
                       (~has(sn.label, "positivo") /\ ~has(sn.label, "negativo")))) =>
                      c = [label |-> "Neutro", tone |-> "neutral"]

\* a card for a label with 'negativo' and 'POSITIVO'
C15_Witness ==
  /\ NewsView(nl).kind = "cards"
  /\ \E i \in 1..Len(nl.data.items) :
       /\ nl.data.items[i].label = <<"negativo", "POSITIVO">>
       /\ NewsView(nl).cards[i].tone = "positive"

----------------------------------------------------------------------------
(* PortfolioMetrics and UpdateBadge on the Dashboard (SpecWidgets) *)

\* the clock advances at most MaxTicks half minutes
MaxTicks == 3

\* the kpis fields that feed a trend
TrendKeys ==
  {"pnl_abs", "pnl_unrealized_abs", "pnl_realized_abs", "day_change_abs"}

\* kpis: each trend amount is absent or a number
Kpis == UNION {[K -> {-1, 0, 1}] : K \in SUBSET TrendKeys}

\* as_of strings: empty, not a date, and the timestamp one half minute
\* after the start of the clock
AsOfs == {<<>>, <<".">>, <<"1">>}

NullSummary ==
  [present |-> FALSE, hasKpis |-> FALSE, kpis |-> <<>>,
   hasAsOf |-> FALSE, as_of |-> <<>>]

Summaries ==
  {NullSummary} \cup
  {[present |-> TRUE, hasKpis |-> h[1], kpis |-> h[2],
    hasAsOf |-> a[1], as_of |-> a[2]] :
     h \in ({TRUE} \X Kpis) \cup {<<FALSE, <<>>>>},
     a \in ({TRUE} \X AsOfs) \cup {<<FALSE, <<>>>>}}

Undefined == [defined |-> FALSE, value |-> 0]

\* the metrics and the kpis field each one takes as its trend
MetricKeys ==
  {"invested_total", "market_total", "pnl_total", "pnl_unrealized",
   "pnl_realized", "day_change", "positions"}

MetricTrend ==
  [pnl_total |-> "pnl_abs", pnl_unrealized |-> "pnl_unrealized_abs",
   pnl_realized |-> "pnl_realized_abs", day_change |-> "day_change_abs"]

\* the trend of every metric of the useMemo
metrics(summary) ==
  [m \in MetricKeys |->
     IF m \in DOMAIN MetricTrend /\ MetricTrend[m] \in DOMAIN summary.kpis
     THEN [defined |-> TRUE, value |-> summary.kpis[MetricTrend[m]]]
     ELSE Undefined]

trendClassNonNegative(value) ==
  IF ~value.defined THEN ""
  ELSE IF value.value >= 0 THEN "positive"
  ELSE "negative"

trendClass(value) ==
  IF ~value.defined THEN ""
  ELSE IF value.value > 0 THEN "positive"
  ELSE IF value.value < 0 THEN "negative"
  ELSE ""

\* the body of the card: the placeholder text, or the class list of every
\* metric value (className `metric-value ${trendClass(metric.trend)}`)
PortfolioMetrics(summary, loading) ==
  IF ~summary.present \/ ~summary.hasKpis
  THEN [text |-> IF loading THEN "Carregando carteira..."
                 ELSE "Sem dados de carteira.",
        classes |-> <<>>]
  ELSE [text |-> "",
        classes |-> [m \in MetricKeys |->
                       {"metric-value", trendClass(metrics(summary)[m])}
                       \ {""}]]

pluralize(value, singular, plural) ==
  IF value = 1 THEN "1 " \o singular
  ELSE ToString(value) \o " " \o plural

\* new Date(asOf).getTime(): times are counted in half minutes (30000 ms),
\* so that years fit; a digit string is a timestamp, any other string is
\* not a date
getTime(asOf) ==
  IF asOf # <<>> /\ LeadingDigits(asOf) = Len(asOf)
  THEN DigitsValue(asOf)
  ELSE NaN

formatRelativeNoFuture(asOf, now) ==
  IF asOf.null \/ asOf.str = <<>> THEN "Sem atualizacao"
  ELSE IF getTime(asOf.str) = NaN THEN "Atualizacao desconhecida"
  ELSE IF (now - getTime(asOf.str)) \div 2 < 1 THEN "Agora"
  ELSE pluralize((now - getTime(asOf.str)) \div 2, "minuto", "minutos")

\* formatRelative(asOf) at Date.now() = now; 60000 ms is 2 half minutes;
\* accents are left out of the texts
formatRelative(asOf, now) ==
  IF asOf.null \/ asOf.str = <<>> THEN "Sem atualizacao"
  ELSE IF getTime(asOf.str) = NaN THEN "Atualizacao desconhecida"
  ELSE
    LET diffMs      == now - getTime(asOf.str)
        diffMinutes == diffMs \div 2
        diffHours   == diffMinutes \div 60
        remainder   == diffMinutes - diffHours * 60
        diffDays    == diffHours \div 24
        diffWeeks   == diffDays \div 7
        diffMonths  == diffDays \div 30
        diffYears   == diffDays \div 365
    IN  IF diffMs < 0 THEN "Em tempo real"
        ELSE IF diffMinutes < 1 THEN "Agora"
        ELSE IF diffMinutes < 60 THEN pluralize(diffMinutes, "minuto", "minutos")
        ELSE IF diffHours < 24 THEN
          IF remainder = 0 THEN pluralize(diffHours, "hora", "horas")
          ELSE pluralize(diffHours, "hora", "horas") \o " "
               \o ToString(remainder) \o " min"
        ELSE IF diffDays < 7 THEN pluralize(diffDays, "dia", "dias")
        ELSE IF diffWeeks < 5 THEN pluralize(diffWeeks, "semana", "semanas")
        ELSE IF diffMonths < 12 THEN pluralize(diffMonths, "mes", "meses")
        ELSE pluralize(diffYears, "ano", "anos")

UpdateBadge(asOf, loading, now) ==
  IF loading THEN "Atualizando..."
  ELSE "Atualizado ha " \o formatRelative(asOf, now)

\* summary?.as_of ?? null
AsOfProp(summary) ==
  IF summary.present /\ summary.hasAsOf
  THEN [null |-> FALSE, str |-> summary.as_of]
  ELSE [null |-> TRUE, str |-> <<>>]

\* summary, loading: the props the Dashboard passes; now: the clock in half
\* minutes;
\* renderedAt: the clock at the last render; renders: renders so far
WdCommit(s) ==
  /\ wd' = [s EXCEPT !.renderedAt = s.now, !.renders = 1]
  /\ UNCHANGED <<app, hl, th, sl, pp, nl, rb, lf, ah, cb, ed, pr, rk, pg>>

InitWidgets ==
  /\ pg = Idle
  /\ rk = Idle
  /\ pr = Idle
  /\ ed = Idle
  /\ cb = Idle
  /\ ah = Idle
  /\ app = Boot("t1", "/inicio")
  /\ hl = HlIdle
  /\ th = ThIdle
  /\ sl = Idle
  /\ pp = Idle
  /\ nl = Idle
  /\ rb = Idle
  /\ lf = Idle
  /\ \E s \in Summaries, l \in BOOLEAN :
       wd = [summary |-> s, loading |-> l, now |-> 0, renderedAt |-> 0,
             renders |-> 0]

\* reloadPortfolio() starts: setPortfolioLoading(true)
PortfolioLoads ==
  /\ ~wd.loading
  /\ WdCommit([wd EXCEPT !.loading = TRUE])

\* reloadPortfolio() ends with the summary it had: setPortfolioLoading(false)
PortfolioSettles ==
  /\ wd.loading
  /\ WdCommit([wd EXCEPT !.loading = FALSE])

\* half a minute passes; nothing renders
ClockTicks ==
  /\ wd.now < MaxTicks
  /\ wd' = [wd EXCEPT !.now = @ + 1]
  /\ UNCHANGED <<app, hl, th, sl, pp, nl, rb, lf, ah, cb, ed, pr, rk, pg>>

NextWidgets ==
  \/ PortfolioLoads
  \/ PortfolioSettles
  \/ ClockTicks

SpecWidgets == InitWidgets /\ [][NextWidgets]_vars

----------------------------------------------------------------------------
(* Claims on PortfolioMetrics and UpdateBadge (SpecWidgets) *)

\* C16: a metric value carries the class 'positive' exactly when its trend
\* amount is > 0 and 'negative' exactly when it is < 0, and neither with a
\* zero or absent trend; with a null summary the card shows 'Carregando
\* carteira...' when loading and 'Sem dados de carteira.' otherwise.
C16_TrendClasses ==
  LET v == PortfolioMetrics(wd.summary, wd.loading)
      k == wd.summary.kpis
  IN  /\ (wd.summary.present /\ wd.summary.hasKpis) =>
            \A m \in MetricKeys :
              LET has == m \in DOMAIN MetricTrend
                         /\ MetricTrend[m] \in DOMAIN k
                  amt == k[MetricTrend[m]]
              IN  /\ "positive" \in v.classes[m] <=> (has /\ amt > 0)
                  /\ "negative" \in v.classes[m] <=> (has /\ amt < 0)
      /\ ~wd.summary.present =>
            v.text = IF wd.loading THEN "Carregando carteira..."
                     ELSE "Sem dados de carteira."

\* a rendered grid with a positive, a negative, a zero and an absent trend
C16_Witness ==
  /\ wd.renders = 1 /\ wd.summary.present /\ wd.summary.hasKpis
  /\ wd.summary.kpis =
       [pnl_abs |-> 1, pnl_unrealized_abs |-> 0, day_change_abs |-> -1]
  /\ PortfolioMetrics(wd.summary, wd.loading).classes =
       [m \in MetricKeys |->
          IF m = "pnl_total" THEN {"metric-value", "positive"}
          ELSE IF m = "day_change" THEN {"metric-value", "negative"}
          ELSE {"metric-value"}]

\* C17: the badge shows 'Atualizando...' whenever loading, whatever asOf
\* is; otherwise 'Atualizado ha ' and then 'Sem atualizacao' for a null or
\* empty asOf, 'Atualizacao desconhecida' for one that is not a date, 'Em
\* tempo real' for a timestamp in the future and 'Agora' for one less than a
\* minute old.
C17_BadgeText ==
  LET asOf == AsOfProp(wd.summary)
      text == UpdateBadge(asOf, wd.loading, wd.renderedAt)
      isDate == asOf.str # <<>> /\ \A i \in 1..Len(asOf.str) : asOf.str[i] \in
                  {Digits[j] : j \in 1..Len(Digits)}
      age  == wd.renderedAt - DigitsValue(asOf.str)
  IN  /\ wd.loading => text = "Atualizando..."
      /\ (~wd.loading /\ (asOf.null \/ asOf.str = <<>>)) =>
            text = "Atualizado ha Sem atualizacao"
      /\ (~wd.loading /\ ~asOf.null /\ asOf.str # <<>> /\ ~isDate) =>
            text = "Atualizado ha Atualizacao desconhecida"
      /\ (~wd.loading /\ ~asOf.null /\ isDate /\ age < 0) =>
            text = "Atualizado ha Em tempo real"
      /\ (~wd.loading /\ ~asOf.null /\ isDate /\ age >= 0 /\ age < 2) =>
            text = "Atualizado ha Agora"

\* a reload ended half a minute after the timestamp of the summary
C17_Witness ==
  /\ wd.renders = 1 /\ ~wd.loading
  /\ wd.summary.as_of = <<"1">> /\ wd.renderedAt = 2
  /\ UpdateBadge(AsOfProp(wd.summary), wd.loading, wd.renderedAt)
       = "Atualizado ha Agora"

----------------------------------------------------------------------------
(* RebalancePanel on the profile page (SpecRebalance) *)

\* at most MaxRbInflight GETs, and as many POSTs, are in flight
MaxRbInflight == 2

NoPlan == [held |-> FALSE, n |-> 0]

\* the plans GET /portfolio/rebalance returns: n suggestions
Plans == {[held |-> TRUE, n |-> n] : n \in 0..1}

\* the rejections of a request: no response message
RbErrors == {e \in Errors : e.message = None}

NoErr == [detail |-> None, message |-> None, errmsg |-> None]

\* catch (err) of load
LoadErrorText(err) ==
  Or(err.detail,
     Or(err.errmsg, "Falha ao calcular sugestoes de rebalanceamento."))

\* catch (err) of handleApply
ApplyErrorText(err) ==
  Or(err.detail, Or(err.errmsg, "Falha ao aplicar plano."))

\* {data && !loading && !error && ...}: the summary, the class deviations,
\* the suggestions and the apply button
PlanShown(s) == s.mounted /\ s.data.held /\ ~s.loading /\ s.error = None

\* the apply button is rendered and not disabled
ApplyEnabled(s) == PlanShown(s) /\ ~s.applying /\ s.data.n > 0

\* a step of the panel; settled: the request the step settled
RbCommit(s, name, settled) ==
  /\ Len(s.gets) + s.staleGets <= MaxRbInflight
  /\ (IF s.post THEN 1 ELSE 0) + s.stalePosts <= MaxRbInflight
  /\ rb' = [s EXCEPT !.op = name, !.settled = settled]
  /\ UNCHANGED <<app, hl, th, sl, pp, nl, wd, lf, ah, cb, ed, pr, rk, pg>>

NoGet == [by |-> "none", afterError |-> FALSE, err |-> NoErr]

\* load() up to its await: by is what called it; afterError: an error was
\* displayed at that time. The query string of the options is left out.
load(s, by) ==
  [s EXCEPT !.loading = TRUE, !.error = None, !.applyError = None,
            !.applyMessage = None,
            !.gets = Append(@, [by |-> by, afterError |-> s.error # None,
                                err |-> NoErr])]

\* a fresh <RebalancePanel/> and its effect; the requests of the one before
\* stay in flight
RbMount(staleGets, stalePosts) ==
  load([mounted |-> TRUE, data |-> NoPlan, loading |-> FALSE, error |-> None,
        applying |-> FALSE, applyError |-> None, applyMessage |-> None,
        gets |-> <<>>, post |-> FALSE, staleGets |-> staleGets,
        stalePosts |-> stalePosts, op |-> "mount", settled |-> NoGet],
       "mount")

InitRebalance ==
  /\ pg = Idle
  /\ rk = Idle
  /\ pr = Idle
  /\ ed = Idle
  /\ cb = Idle
  /\ ah = Idle
  /\ app = Boot("t1", "/perfil")
  /\ hl = HlIdle
  /\ th = ThIdle
  /\ sl = Idle
  /\ pp = Idle
  /\ nl = Idle
  /\ wd = Idle
  /\ lf = Idle
  /\ rb = RbMount(0, 0)

\* the profile page is left
RbUnmount ==
  /\ rb.mounted
  /\ RbCommit([rb EXCEPT !.mounted = FALSE, !.data = NoPlan,
                         !.loading = FALSE, !.error = None,
                         !.applying = FALSE, !.applyError = None,
                         !.applyMessage = None, !.gets = <<>>,
                         !.post = FALSE,
                         !.staleGets = @ + Len(rb.gets),
                         !.stalePosts = @ + (IF rb.post THEN 1 ELSE 0)],
              "unmount", NoGet)

RbRemount ==
  /\ ~rb.mounted
  /\ RbCommit(RbMount(rb.staleGets, rb.stalePosts), "mount", NoGet)

\* the 'Calcular' button: disabled={loading}
clickCalcular ==
  /\ rb.mounted /\ ~rb.loading
  /\ RbCommit(load(rb, "calcular"), "calcular", NoGet)

Without(seq, i) == SubSeq(seq, 1, i - 1) \o SubSeq(seq, i + 1, Len(seq))

\* the finally of handleApply runs when the load() it awaits has settled
ApplyEnds(s, get) ==
  IF get.by = "apply" THEN [s EXCEPT !.applying = FALSE] ELSE s

\* a GET /portfolio/rebalance of the mounted panel resolves
GetResolves ==
  \E i \in 1..Len(rb.gets), plan \in Plans :
    RbCommit(ApplyEnds([rb EXCEPT !.data = plan, !.loading = FALSE,
                                  !.gets = Without(@, i)], rb.gets[i]),
             "getResolved", rb.gets[i])

\* a GET /portfolio/rebalance of the mounted panel fails
GetRejects ==
  \E i \in 1..Len(rb.gets), err \in RbErrors :
    RbCommit(ApplyEnds([rb EXCEPT !.error = LoadErrorText(err),
                                  !.data = NoPlan, !.loading = FALSE,
                                  !.gets = Without(@, i)], rb.gets[i]),
             "getRejected", [rb.gets[i] EXCEPT !.err = err])

\* handleApply up to its await
handleApply(s) ==
  IF ~s.data.held \/ s.data.n = 0 \/ s.applying THEN s
  ELSE [s EXCEPT !.applying = TRUE, !.applyError = None,
                 !.applyMessage = None, !.post = TRUE]

\* a click on 'Aplicar plano'
clickApply ==
  /\ ApplyEnabled(rb)
  /\ RbCommit(handleApply(rb), "handleApply", NoGet)

\* POST /portfolio/rebalance/apply resolves: the message, then load()
PostResolves ==
  /\ rb.post
  /\ RbCommit(load([rb EXCEPT !.post = FALSE,
                              !.applyMessage = "Plano aplicado com sucesso."],
                   "apply"),
              "postResolved", NoGet)

PostRejects ==
  \E err \in RbErrors :
    /\ rb.post
    /\ RbCommit([rb EXCEPT !.post = FALSE, !.applying = FALSE,
                           !.applyError = ApplyErrorText(err)],
                "postRejected", NoGet)

\* a GET of an unmounted panel settles: its setState calls do nothing
StaleGetSettles ==
  /\ rb.staleGets > 0
  /\ RbCommit([rb EXCEPT !.staleGets = @ - 1], "staleSettled", NoGet)

\* the POST of an unmounted panel resolves: its handleApply still calls
\* load(), which sends a GET
StalePostResolves ==
  /\ rb.stalePosts > 0
  /\ RbCommit([rb EXCEPT !.stalePosts = @ - 1, !.staleGets = @ + 1],
              "staleSettled", NoGet)

StalePostRejects ==
  /\ rb.stalePosts > 0
  /\ RbCommit([rb EXCEPT !.stalePosts = @ - 1], "staleSettled", NoGet)

NextRebalance ==
  \/ RbUnmount
  \/ RbRemount
  \/ clickCalcular
  \/ GetResolves
  \/ GetRejects
  \/ clickApply
  \/ PostResolves
  \/ PostRejects
  \/ StaleGetSettles
  \/ StalePostResolves
  \/ StalePostRejects

SpecRebalance == InitRebalance /\ [][NextRebalance]_vars

----------------------------------------------------------------------------
(* Claims on RebalancePanel (SpecRebalance) *)

\* C18: when GET /portfolio/rebalance fails the panel has loading = false,
\* data = null and shows the message (detail, else the error's message, else
\* the default) and no plan section; when a 'Calcular' clicked while an
\* error was displayed succeeds, the error is cleared and the plan is shown.
C18_FailureThenRecalculate ==
  /\ rb.op = "getRejected" =>
       /\ ~rb.loading /\ rb.data = NoPlan
       /\ rb.error =
            IF rb.settled.err.detail \notin {None, ""}
            THEN rb.settled.err.detail
            ELSE IF rb.settled.err.errmsg # None THEN rb.settled.err.errmsg
            ELSE "Falha ao calcular sugestoes de rebalanceamento."
       /\ ~PlanShown(rb)
  /\ (rb.op = "getResolved" /\ rb.settled.by = "calcular"
      /\ rb.settled.afterError) =>
       rb.error = None /\ PlanShown(rb)

\* C19: POST /portfolio/rebalance/apply is sent only while a plan with at
\* least one suggestion is held, and at most one apply request is in flight
\* at any time.
C19_OneApplyAtATime ==
  /\ rb.op = "handleApply" => (rb.data.held /\ rb.data.n >= 1)
  /\ (IF rb.post THEN 1 ELSE 0) + rb.stalePosts <= 1

\* C28: when the reload that follows a successful apply has resolved, the
\* panel holds applyMessage 'Plano aplicado com sucesso.' with applyError
\* null and applying false; a failed apply sets applyError, leaves
\* applyMessage null and does not change the plan.
C28_ApplyOutcome ==
  [][/\ (rb'.op = "getResolved" /\ rb'.settled.by = "apply") =>
          /\ rb'.applyMessage = "Plano aplicado com sucesso."
          /\ rb'.applyError = None
          /\ ~rb'.applying
     /\ rb'.op = "postRejected" =>
          /\ rb'.applyError # None
          /\ rb'.applyMessage = None
          /\ rb'.data = rb.data]_vars

----------------------------------------------------------------------------
(* The Login form with the contents of its fields (SpecForm) *)

\* what is typed into the inputs
Emails ==
  {<<>>, <<"a", "@", "a", ".", "a">>, <<"a", "@", "a">>,
   <<"@", "a", ".", "a">>, <<"a", " ", "@", "a", ".", "a">>,
   <<" ", "a", "@", "a", ".", "a">>, <<"a", "@", ".", "a">>}

Passwords ==
  {<<>>, <<"x", "x", "x", "x", "x", "x">>,
   <<" ", "x", "x", "x", "x", "x", " ">>,
   <<"x", "x", "x", "x", "x", "x", " ">>}

Names == {<<>>, <<" ", "x">>, <<"x", "x">>}

\* str.trim()
RECURSIVE trim(_)
trim(str) ==
  IF str = <<>> THEN str
  ELSE IF Head(str) = " " THEN trim(Tail(str))
  ELSE IF str[Len(str)] = " " THEN trim(SubSeq(str, 1, Len(str) - 1))
  ELSE str

\* /\S+@\S+\.\S+/.test(email)
isEmailValid(email) ==
  \E a, d \in 1..Len(email) :
    /\ a > 1 /\ email[a] = "@" /\ email[a - 1] # " "
    /\ d > a + 1 /\ email[d] = "."
    /\ \A i \in (a + 1)..(d - 1) : email[i] # " "
    /\ d < Len(email) /\ email[d + 1] # " "

isPasswordOkUntrimmed(password) == Len(password) >= 6

isPasswordOk(password) == Len(trim(password)) >= 6

isConfirmOk(mode, password, confirm) == mode = "login" \/ password = confirm

\* formValid of the rendered form
LoginFormValid(s) ==
  IF s.mode = "login"
  THEN isEmailValid(s.email) /\ isPasswordOk(s.password)
  ELSE /\ isEmailValid(s.email) /\ isPasswordOk(s.password)
       /\ isConfirmOk(s.mode, s.password, s.confirm)
       /\ Len(trim(s.name)) >= 2

\* the values handleSubmit closed over
NoSubmission ==
  [mode |-> "login", name |-> <<>>, email |-> <<>>, password |-> <<>>,
   confirm |-> <<>>]

Submission(s) ==
  [mode |-> s.mode, name |-> s.name, email |-> s.email,
   password |-> s.password, confirm |-> s.confirm]

\* left: navigate('/dashboard') was called; pc: where handleSubmit waits;
\* sent: the requests of the last step, each with the form it was sent for
LfCommit(s, name, sent) ==
  /\ ~lf.left
  /\ lf' = [s EXCEPT !.op = name, !.sent = sent]
  /\ UNCHANGED <<app, hl, th, sl, pp, nl, wd, rb, ah, cb, ed, pr, rk, pg>>

InitForm ==
  /\ pg = Idle
  /\ rk = Idle
  /\ pr = Idle
  /\ ed = Idle
  /\ cb = Idle
  /\ ah = Idle
  /\ app = Boot(None, "/login")
  /\ hl = HlIdle
  /\ th = ThIdle
  /\ sl = Idle
  /\ pp = Idle
  /\ nl = Idle
  /\ wd = Idle
  /\ rb = Idle
  /\ lf = [mode |-> "login", name |-> <<>>, email |-> <<>>,
           password |-> <<>>, confirm |-> <<>>, loading |-> FALSE,
           error |-> None, pc |-> "idle", form |-> NoSubmission,
           left |-> FALSE, sent |-> {}, op |-> "mount"]

\* a tab is clicked; the effect on [mode, ...] clears the error
setMode ==
  \E m \in {"login", "register"} :
    /\ m # lf.mode
    /\ LfCommit([lf EXCEPT !.mode = m, !.error = None], "setMode", {})

setEmail ==
  \E v \in Emails :
    /\ v # lf.email
    /\ LfCommit([lf EXCEPT !.email = v, !.error = None], "edit", {})

setPassword ==
  \E v \in Passwords :
    /\ v # lf.password
    /\ LfCommit([lf EXCEPT !.password = v, !.error = None], "edit", {})

\* the confirm and name inputs are rendered in register mode only
setConfirm ==
  \E v \in Passwords :
    /\ lf.mode = "register" /\ v # lf.confirm
    /\ LfCommit([lf EXCEPT !.confirm = v, !.error = None], "edit", {})

setName ==
  \E v \in Names :
    /\ lf.mode = "register" /\ v # lf.name
    /\ LfCommit([lf EXCEPT !.name = v, !.error = None], "edit", {})

AuthRequest(ep, form) == [ep |-> ep, form |-> form]

\* the form is submitted while the button is not in its loading state;
\* handleSubmit up to its first await
handleSubmit ==
  /\ ~lf.loading /\ lf.pc = "idle"
  /\ IF ~LoginFormValid(lf)
     THEN LfCommit(lf, "submitIgnored", {})
     ELSE LfCommit([lf EXCEPT !.loading = TRUE, !.error = None,
                              !.pc = lf.mode, !.form = Submission(lf)],
                   "submit",
                   {AuthRequest(IF lf.mode = "login" THEN "/auth/login"
                                ELSE "/auth/register", Submission(lf))})

\* handleSubmit after the token is known
FormAfterToken(s, tok) ==
  IF Truthy(tok)
  THEN [s EXCEPT !.pc = "idle", !.loading = FALSE, !.left = TRUE]
  ELSE [s EXCEPT !.pc = "idle", !.loading = FALSE, !.error = NoTokenError]

\* AuthApi.login resolves
FormLoginResolves ==
  \E tok \in RespTokens :
    /\ lf.pc \in {"login", "registerLogin"}
    /\ LfCommit(FormAfterToken(lf, tok), "loginResolved", {})

\* AuthApi.register resolves: without a token, AuthApi.login(email,
\* password) with the values of the submission
FormRegisterResolves ==
  \E tok \in RespTokens :
    /\ lf.pc = "register"
    /\ IF Truthy(tok)
       THEN LfCommit(FormAfterToken(lf, tok), "registerResolved", {})
       ELSE LfCommit([lf EXCEPT !.pc = "registerLogin"], "registerResolved",
                     {AuthRequest("/auth/login", lf.form)})

\* AuthApi.login or AuthApi.register rejects
FormRejects ==
  \E e \in RbErrors :
    /\ lf.pc # "idle"
    /\ LfCommit([lf EXCEPT !.pc = "idle", !.loading = FALSE,
                           !.error = SubmitErrorText(e)], "rejected", {})

NextForm ==
  \/ setMode
  \/ setEmail
  \/ setPassword
  \/ setConfirm
  \/ setName
  \/ handleSubmit
  \/ FormLoginResolves
  \/ FormRegisterResolves
  \/ FormRejects

SpecForm == InitForm /\ [][NextForm]_vars

----------------------------------------------------------------------------
(* Claims on the Login form (SpecForm) *)

\* C20: a login or register request is sent only for a valid form: the
\* email matches \S+@\S+\.\S+ and the trimmed password has at least 6
\* characters and, in register mode, the confirmation equals the password
\* and the trimmed name has at least 2 characters; switching the mode changes
\* which fields are validated and clears a displayed error.
C20_RequestsOnlyFromValidForm ==
  LET matches(email) ==
        \E i, j, k \in 1..Len(email) :
          /\ i < j /\ j + 1 < k /\ k < Len(email)
          /\ email[j] = "@" /\ email[k] = "."
          /\ \A n \in (i..(j - 1)) \cup ((j + 1)..(k - 1)) \cup {k + 1} :
               email[n] # " "
      long(str, n) ==
        \E i, j \in 1..Len(str) :
          /\ str[i] # " " /\ str[j] # " " /\ j - i + 1 >= n
      valid(f) ==
        /\ matches(f.email) /\ long(f.password, 6)
        /\ f.mode = "register" =>
             f.confirm = f.password /\ long(f.name, 2)
  IN  /\ \A r \in lf.sent :
           /\ valid(r.form)
           /\ r.ep = "/auth/register" => r.form.mode = "register"
      /\ lf.op = "submitIgnored" => ~valid(Submission(lf))
      /\ lf.op = "setMode" => lf.error = None
      /\ LoginFormValid(lf) <=> valid(Submission(lf))

\* the automatic login of a registration whose form was edited afterwards
C20_Witness ==
  /\ lf.op = "registerResolved"
  /\ \E r \in lf.sent : r.ep = "/auth/login" /\ r.form.mode = "register"
  /\ lf.mode = "login" /\ ~LoginFormValid(lf)

----------------------------------------------------------------------------
(* The add form of HoldingsList (SpecAdd) *)

\* at most MaxAdds invocations of addHolding get past its checks
MaxAdds == 2

\* what is typed into the ticker, quantity and total inputs
Tickers == {<<>>, <<"a">>, <<" ", "A">>, <<"b">>}
AddQuantities == {<<>>, <<"0">>, <<"1">>}
AddTotals == {<<>>, <<"1">>}
AddDates == {EmptyDate, Today, Today + 1}

toUpperCase(str) ==
  [i \in 1..Len(str) |-> CASE str[i] = "a" -> "A"
                           [] str[i] = "b" -> "B"
                           [] OTHER -> str[i]]

normalizeSymbol(symbol) == toUpperCase(trim(symbol))

\* the lots of the portfolio: symbol and purchase_date
Lots == {<<s, d>> : s \in {<<"A">>, <<"B">>}, d \in AddDates \ {EmptyDate}}

\* the checks of addHolding before its first request: the message it sets,
\* or None
AddCheck(s) ==
  IF s.symbol = <<>> \/ s.quantity = <<>> \/ s.avgPrice = <<>>
     \/ s.purchaseDate = EmptyDate
  THEN "Preencha todos os campos."
  ELSE IF toNumber(s.quantity) = NaN \/ toNumber(s.quantity) <= 0
          \/ toNumber(s.avgPrice) = NaN \/ toNumber(s.avgPrice) <= 0
  THEN "Quantidade e preco total devem ser numeros > 0."
  ELSE IF isFutureDate(s.purchaseDate, s.off)
  THEN "A data de compra nao pode ser futura."
  ELSE IF \E h \in s.holdings :
            /\ normalizeSymbol(h[1]) = normalizeSymbol(s.symbol)
            /\ h[2] = s.purchaseDate
  THEN "Ja existe compra. Edite o registro existente."
  ELSE None

NoLot == <<<<>>, EmptyDate>>

\* holdings: the prop; server: the lots the backend holds; adds: the
\* invocations of addHolding that wait for a response; started: how many
\* got past the checks; posted: the POST
\* /holdings requests sent so far; sentLot: the one the last step sent;
\* known: that lot was in holdings when it was sent
AhCommit(s, name, lot) ==
  /\ s.started <= MaxAdds
  /\ ah' = [s EXCEPT !.op = name, !.sentLot = lot,
                     !.known = lot \in s.holdings,
                     !.posted = IF lot = NoLot THEN @ ELSE Append(@, lot)]
  /\ UNCHANGED <<app, hl, th, sl, pp, nl, wd, rb, lf, cb, ed, pr, rk, pg>>

InitAdd ==
  /\ pg = Idle
  /\ rk = Idle
  /\ pr = Idle
  /\ ed = Idle
  /\ cb = Idle
  /\ app = AppIdle
  /\ hl = HlIdle
  /\ th = ThIdle
  /\ sl = Idle
  /\ pp = Idle
  /\ nl = Idle
  /\ wd = Idle
  /\ rb = Idle
  /\ lf = Idle
  /\ \E h \in {{}, {<<<<"A">>, Today>>}} :
       ah = [symbol |-> <<>>, quantity |-> <<>>, avgPrice |-> <<>>,
             purchaseDate |-> Today, off |-> 0, error |-> None,
             holdings |-> h, server |-> h, adds |-> <<>>, reloads |-> 0,
             started |-> 0, posted |-> <<>>, sentLot |-> NoLot, known |-> FALSE,
             op |-> "mount"]

setSymbol ==
  \E v \in Tickers :
    /\ v # ah.symbol
    /\ AhCommit([ah EXCEPT !.symbol = v], "edit", NoLot)

setQuantity ==
  \E v \in AddQuantities :
    /\ v # ah.quantity
    /\ AhCommit([ah EXCEPT !.quantity = v], "edit", NoLot)

setAvgPrice ==
  \E v \in AddTotals :
    /\ v # ah.avgPrice
    /\ AhCommit([ah EXCEPT !.avgPrice = v], "edit", NoLot)

setPurchaseDate ==
  \E v \in AddDates :
    /\ v # ah.purchaseDate
    /\ AhCommit([ah EXCEPT !.purchaseDate = v], "edit", NoLot)

\* addHolding up to its first await: GET /assets
addHolding(s) ==
  IF AddCheck(s) # None THEN [s EXCEPT !.error = AddCheck(s)]
  ELSE [s EXCEPT !.error = None, !.started = @ + 1,
                 !.adds = Append(@, [lot |-> <<normalizeSymbol(s.symbol),
                                               s.purchaseDate>>,
                                     at |-> "getAsset"])]

\* a click on 'Adicionar'
clickAdd ==
  /\ ah.started <= MaxAdds
  /\ AhCommit(addHolding(ah),
              IF AddCheck(ah) # None THEN "addRejected" ELSE "addStarted",
              NoLot)

\* GET /assets, or the POST /assets after its failure, resolves: POST
\* /holdings is sent
AssetResolves ==
  \E i \in 1..Len(ah.adds) :
    /\ ah.adds[i].at \in {"getAsset", "postAsset"}
    /\ AhCommit([ah EXCEPT !.adds[i].at = "postHolding"], "postHoldings",
                ah.adds[i].lot)

\* GET /assets fails: POST /assets is sent
AssetMissing ==
  \E i \in 1..Len(ah.adds) :
    /\ ah.adds[i].at = "getAsset"
    /\ AhCommit([ah EXCEPT !.adds[i].at = "postAsset"], "postAsset", NoLot)

\* POST /assets fails: the outer catch
AssetCreateFails ==
  \E i \in 1..Len(ah.adds) :
    /\ ah.adds[i].at = "postAsset"
    /\ AhCommit([ah EXCEPT !.adds = Without(@, i),
                           !.error = "Erro ao adicionar ativo."],
                "addFailed", NoLot)

\* a POST /holdings resolves: resetForm() and onRefresh()
HoldingCreated ==
  \E i \in 1..Len(ah.adds) :
    /\ ah.adds[i].at = "postHolding"
    /\ AhCommit([ah EXCEPT !.adds = Without(@, i),
                           !.server = @ \cup {ah.adds[i].lot},
                           !.symbol = <<>>, !.quantity = <<>>,
                           !.avgPrice = <<>>, !.purchaseDate = Today,
                           !.reloads = @ + 1],
                "added", NoLot)

\* a POST /holdings fails: the outer catch
HoldingRejected ==
  \E i \in 1..Len(ah.adds) :
    /\ ah.adds[i].at = "postHolding"
    /\ AhCommit([ah EXCEPT !.adds = Without(@, i),
                           !.error = "Erro ao adicionar ativo."],
                "addFailed", NoLot)

\* the reload started by onRefresh() delivers the holdings
AddReloaded ==
  /\ ah.reloads > 0
  /\ AhCommit([ah EXCEPT !.reloads = @ - 1, !.holdings = ah.server],
              "reloaded", NoLot)

NextAdd ==
  \/ setSymbol
  \/ setQuantity
  \/ setAvgPrice
  \/ setPurchaseDate
  \/ clickAdd
  \/ AssetResolves
  \/ AssetMissing
  \/ AssetCreateFails
  \/ HoldingCreated
  \/ HoldingRejected
  \/ AddReloaded

SpecAdd == InitAdd /\ [][NextAdd]_vars

----------------------------------------------------------------------------
(* Claims on the add form (SpecAdd) *)

\* C21: no two POST /holdings are sent for the same normalized symbol and
\* purchase date, none is sent for a lot already in the holdings, and a
\* rejected attempt sets the error message and sends nothing.
C21_NoSecondLotSameDay ==
  /\ \A i, j \in 1..Len(ah.posted) : i # j => ah.posted[i] # ah.posted[j]
  /\ ah.op = "postHoldings" => ~ah.known
  /\ ah.op = "addRejected" => ah.error # None /\ ah.sentLot = NoLot

----------------------------------------------------------------------------
(* UpdateBadge over days and years (SpecAges) *)

\* the badge is followed for MaxDays days
MaxDays == 800

\* a summary dated at the start of the clock
DatedSummary ==
  [present |-> TRUE, hasKpis |-> FALSE, kpis |-> <<>>, hasAsOf |-> TRUE,
   as_of |-> <<"0">>]

InitAges ==
  /\ pg = Idle
  /\ rk = Idle
  /\ pr = Idle
  /\ ed = Idle
  /\ cb = Idle
  /\ ah = Idle
  /\ app = Boot("t1", "/inicio")
  /\ hl = HlIdle
  /\ th = ThIdle
  /\ sl = Idle
  /\ pp = Idle
  /\ nl = Idle
  /\ rb = Idle
  /\ lf = Idle
  /\ wd = [summary |-> DatedSummary, loading |-> FALSE, now |-> 0,
           renderedAt |-> 0, renders |-> 0]

\* a day (2880 half minutes) passes after a render
DayPasses ==
  /\ wd.now < MaxDays * 2880
  /\ wd.renderedAt = wd.now
  /\ wd' = [wd EXCEPT !.now = @ + 2880]
  /\ UNCHANGED <<app, hl, th, sl, pp, nl, rb, lf, ah, cb, ed, pr, rk, pg>>

\* the Dashboard renders the badge again
BadgeRenders ==
  /\ wd.renderedAt # wd.now
  /\ WdCommit(wd)

NextAges ==
  \/ DayPasses
  \/ BadgeRenders

SpecAges == InitAges /\ [][NextAges]_vars

----------------------------------------------------------------------------
(* Claims on UpdateBadge over days and years (SpecAges) *)

\* C22: for an asOf at least one minute in the past, a whole number of
\* days ago, the label is '<n> <unit>' with n >= 1.
C22_NoZeroAmount ==
  LET asOf  == AsOfProp(wd.summary)
      age   == wd.renderedAt - getTime(asOf.str)
      label == formatRelative(asOf, wd.renderedAt)
      Units == {<<"minuto", "minutos">>, <<"hora", "horas">>,
                <<"dia", "dias">>, <<"semana", "semanas">>,
                <<"mes", "meses">>, <<"ano", "anos">>}
      \* no amount exceeds the minutes elapsed, nor MaxDays here
      top   == IF age \div 2 < MaxDays THEN age \div 2 ELSE MaxDays
  IN  age >= 2 =>
        \E n \in 1..top, u \in Units :
          label = IF n = 1 THEN "1 " \o u[1] ELSE ToString(n) \o " " \o u[2]

----------------------------------------------------------------------------
(* ChatWidget and ChatBox (SpecChat) *)

\* at most MaxSends messages are sent to the assistant
MaxSends == 2

Users == {"A", "B"}

\* what is typed into the chat input
ChatInputs == {<<>>, <<" ">>, <<"o", "i">>}

\* a message of the history; owner: the user logged in when it was written
UserMsg(text, u) == [from |-> "user", text |-> text, owner |-> u]
BotMsg(text, u) == [from |-> "bot", text |-> text, owner |-> u]

\* useEffect on [history]: localStorage.setItem(STORAGE_KEY, ...)
persist(s) == [s EXCEPT !.stored = s.history]

\* user: who is logged in; open: the panel of ChatWidget; mounted: a ChatBox
\* is rendered; stored: the history under 'chat_history' in localStorage;
\* live: the POST /chat of the rendered ChatBox is in flight; stale: those
\* of unmounted ones; sends: messages sent so far
CbCommit(s, name) ==
  /\ s.sends <= MaxSends
  /\ cb' = [s EXCEPT !.op = name]
  /\ UNCHANGED <<app, hl, th, sl, pp, nl, wd, rb, lf, ah, ed, pr, rk, pg>>

InitChat ==
  /\ pg = Idle
  /\ rk = Idle
  /\ pr = Idle
  /\ ed = Idle
  /\ ah = Idle
  /\ app = Boot("t1", "/inicio")
  /\ hl = HlIdle
  /\ th = ThIdle
  /\ sl = Idle
  /\ pp = Idle
  /\ nl = Idle
  /\ wd = Idle
  /\ rb = Idle
  /\ lf = Idle
  /\ cb = [user |-> "A", open |-> FALSE, mounted |-> FALSE, msg |-> <<>>,
           history |-> <<>>, loading |-> FALSE, stored |-> <<>>,
           live |-> FALSE, stale |-> 0, sends |-> 0, op |-> "login"]

\* the ChatBox is removed from the page; its request stays in flight
ChatUnmount(s) ==
  [s EXCEPT !.mounted = FALSE, !.msg = <<>>, !.history = <<>>,
            !.loading = FALSE, !.live = FALSE,
            !.stale = @ + (IF s.live THEN 1 ELSE 0)]

\* toggle() on a closed widget: a fresh ChatBox reads the stored history
openChat ==
  /\ cb.user # None /\ ~cb.open
  /\ CbCommit(persist([cb EXCEPT !.open = TRUE, !.mounted = TRUE,
                                 !.msg = <<>>, !.history = cb.stored,
                                 !.loading = FALSE]), "open")

\* toggle(), 'x', Escape or a click outside the panel
closeChat ==
  /\ cb.open
  /\ CbCommit([ChatUnmount(cb) EXCEPT !.open = FALSE], "close")

setMsg ==
  \E v \in ChatInputs :
    /\ cb.mounted /\ ~cb.loading /\ v # cb.msg
    /\ CbCommit([cb EXCEPT !.msg = v], "edit")

\* send() up to its await
send(s) ==
  IF trim(s.msg) = <<>> \/ s.loading THEN s
  ELSE persist([s EXCEPT !.history = Append(@, UserMsg(trim(s.msg), s.user)),
                         !.msg = <<>>, !.loading = TRUE, !.live = TRUE,
                         !.sends = @ + 1])

\* the form is submitted: disabled={loading || !msg.trim()}
submitChat ==
  /\ cb.mounted /\ ~cb.loading /\ trim(cb.msg) # <<>>
  /\ CbCommit(send(cb), "send")

\* POST /chat of the rendered ChatBox resolves, with or without a reply
ChatResolves ==
  \E reply \in {<<"r">>, <<"Sem resposta.">>} :
    /\ cb.live
    /\ CbCommit(persist([cb EXCEPT !.history = Append(@, BotMsg(reply, cb.user)),
                                   !.loading = FALSE, !.live = FALSE]),
                "replied")

ChatRejects ==
  /\ cb.live
  /\ CbCommit(persist([cb EXCEPT
                 !.history = Append(@, BotMsg(<<"Erro ao consultar o assistente.">>,
                                              cb.user)),
                 !.loading = FALSE, !.live = FALSE]),
              "replied")

\* the POST /chat of an unmounted ChatBox settles: its setHistory does
\* nothing
ChatStaleSettles ==
  /\ cb.stale > 0
  /\ CbCommit([cb EXCEPT !.stale = @ - 1], "staleSettled")

\* 'Limpar': disabled={loading || history.length === 0}
clearChat ==
  /\ cb.mounted /\ ~cb.loading /\ cb.history # <<>>
  /\ CbCommit(persist([cb EXCEPT !.history = <<>>]), "clear")

\* 'Sair': AuthApi.logout() removes the token; AppLayout is unmounted
ChatLogout ==
  /\ cb.user # None
  /\ CbCommit([ChatUnmount(cb) EXCEPT !.open = FALSE, !.user = None],
              "logout")

\* a user logs in on the same browser: AppLayout mounts, the widget closed
ChatLogin ==
  \E u \in Users :
    /\ cb.user = None
    /\ CbCommit([cb EXCEPT !.user = u], "login")

NextChat ==
  \/ openChat
  \/ closeChat
  \/ setMsg
  \/ submitChat
  \/ ChatResolves
  \/ ChatRejects
  \/ ChatStaleSettles
  \/ clearChat
  \/ ChatLogout
  \/ ChatLogin

SpecChat == InitChat /\ [][NextChat]_vars

----------------------------------------------------------------------------
(* Claims on the chat (SpecChat) *)

\* C23: the persisted history alternates user and assistant messages, a
\* user message without its assistant message has its request in flight,
\* and at most one /chat request is in flight.
C23_HistoryAlternates ==
  /\ \A i \in 1..Len(cb.stored) :
       cb.stored[i].from = IF i % 2 = 1 THEN "user" ELSE "bot"
  /\ (~cb.live /\ cb.stale = 0) => Len(cb.stored) % 2 = 0
  /\ (IF cb.live THEN 1 ELSE 0) + cb.stale <= 1

\* C24: the history a user sees in the ChatBox holds no message of another
\* user's session.
C24_HistoryOfOwnSession ==
  cb.mounted => \A i \in 1..Len(cb.history) : cb.history[i].owner = cb.user

----------------------------------------------------------------------------
(* HoldingsList.tsx: the inline edit of a holding, with its texts (SpecEdit) *)

\* PUT /holdings/{id} requests sent in a run
MaxEdits == 1

\* holding.quantity and holding.avg_price, in thousandths
EditQuantities == {500, 1000, 1200, 2000}
EditPrices == {1000, 2500}

\* what is typed into the inputs of the edited row
EditTexts == {<<>>, <<"0">>, <<"3">>, <<"0", ",", "5">>, <<"1", ".", "5">>}

NoEdit == [id |-> 0]
NoBody == [sent |-> FALSE]

EdCommit(s, name) ==
  /\ ed' = [s EXCEPT !.op = name]
  /\ UNCHANGED <<app, hl, th, sl, pp, nl, wd, rb, lf, ah, cb, pr, rk, pg>>

\* one holding, id 1; untouched: no input was typed since startEdit
InitEdit ==
  /\ pg = Idle
  /\ rk = Idle
  /\ pr = Idle
  /\ cb = Idle
  /\ ah = Idle
  /\ app = Boot("t1", "/carteira")
  /\ hl = HlIdle
  /\ th = ThIdle
  /\ sl = Idle
  /\ pp = Idle
  /\ nl = Idle
  /\ wd = Idle
  /\ rb = Idle
  /\ lf = Idle
  /\ \E q \in EditQuantities, p \in EditPrices :
       ed = [holding |-> [id |-> 1, quantity |-> q, avg_price |-> p],
             editing |-> NoEdit.id, editQty |-> <<>>, editPrice |-> <<>>,
             error |-> None, untouched |-> FALSE, puts |-> <<>>,
             body |-> NoBody, saves |-> 0, op |-> "mount"]

\* startEdit(h)
startEditTexts(s, h) ==
  [s EXCEPT !.editing = h.id,
            !.editQty = String(h.quantity),
            !.editPrice = toFixed2Comma((h.avg_price * h.quantity) \div Scale),
            !.error = None,
            !.untouched = TRUE]

clickEdit ==
  /\ ed.editing = NoEdit.id
  /\ EdCommit(startEditTexts(ed, ed.holding), "startEdit")

clickCancel ==
  /\ ed.editing # NoEdit.id
  /\ EdCommit([ed EXCEPT !.editing = NoEdit.id], "cancelEdit")

setEditQty ==
  \E v \in EditTexts :
    /\ ed.editing # NoEdit.id /\ v # ed.editQty
    /\ EdCommit([ed EXCEPT !.editQty = v, !.untouched = FALSE], "type")

setEditPrice ==
  \E v \in EditTexts :
    /\ ed.editing # NoEdit.id /\ v # ed.editPrice
    /\ EdCommit([ed EXCEPT !.editPrice = v, !.untouched = FALSE], "type")

\* saveEdit(id) up to its await; body: what this call sent
saveEditTexts(s, id) ==
  LET qty   == toNumber(s.editQty)
      total == toNumber(s.editPrice)
  IN  IF qty = NaN \/ qty <= 0 \/ total = NaN \/ total <= 0
      THEN [s EXCEPT
              !.error = "Quantidade e preco total devem ser numeros > 0.",
              !.body = NoBody]
      ELSE LET b == [sent |-> TRUE, id |-> id, quantity |-> qty,
                     avg_price |-> (total * Scale) \div qty]
           IN  [s EXCEPT !.puts = Append(@, b), !.body = b,
                         !.saves = @ + 1]

clickSave ==
  /\ ed.editing # NoEdit.id
  /\ ed.saves < MaxEdits
  /\ EdCommit(saveEditTexts(ed, ed.editing), "saveEdit")

\* PUT /holdings/{id} resolves: setEditing(null); onRefresh() brings the
\* holding as the request left it
PutResolves ==
  \E i \in 1..Len(ed.puts) :
    /\ EdCommit([ed EXCEPT !.puts = Without(@, i),
                           !.editing = NoEdit.id,
                           !.holding = [id |-> ed.puts[i].id,
                                        quantity |-> ed.puts[i].quantity,
                                        avg_price |-> ed.puts[i].avg_price]],
                "saved")

\* PUT /holdings/{id} fails: console.error only
PutRejects ==
  \E i \in 1..Len(ed.puts) :
    /\ EdCommit([ed EXCEPT !.puts = Without(@, i)], "saveFailed")

NextEdit ==
  \/ clickEdit
  \/ clickCancel
  \/ setEditQty
  \/ setEditPrice
  \/ clickSave
  \/ PutResolves
  \/ PutRejects

SpecEdit == InitEdit /\ [][NextEdit]_vars

\* C26: saveEdit right after startEdit sends PUT /holdings/{id} with the
\* quantity the holding has.
C26_UnchangedEditKeepsQuantity ==
  (ed.op = "saveEdit" /\ ed.untouched)
    => /\ ed.body.sent
       /\ ed.body.quantity = ed.holding.quantity

----------------------------------------------------------------------------
(* AppLayout.tsx: overlapping reloads of the portfolio (SpecReload) *)

\* calls of reloadPortfolio in a run, the one of the mount effect included
MaxReloads == 4

\* portfolio = null
NoPortfolio == 0

ReloadCallers == {"dashboard", "handleRefresh", "handleTransactionsChanged"}

PrCommit(s, name) ==
  /\ pr' = [s EXCEPT !.op = name]
  /\ UNCHANGED <<app, hl, th, sl, pp, nl, wd, rb, lf, ah, cb, ed, rk, pg>>

\* reloadPortfolio() up to its await; requests are numbered as issued and a
\* response carries the number of its request
reloadPortfolioCall(s) ==
  [s EXCEPT !.portfolioLoading = TRUE,
            !.issued = @ + 1,
            !.inflight = @ \cup {s.issued + 1}]

\* the state after the mount effect; succeeded: requests answered with data
InitReload ==
  /\ pg = Idle
  /\ rk = Idle
  /\ ed = Idle
  /\ cb = Idle
  /\ ah = Idle
  /\ app = Boot("t1", "/carteira")
  /\ hl = HlIdle
  /\ th = ThIdle
  /\ sl = Idle
  /\ pp = Idle
  /\ nl = Idle
  /\ wd = Idle
  /\ rb = Idle
  /\ lf = Idle
  /\ pr = reloadPortfolioCall([portfolio |-> NoPortfolio,
                               portfolioLoading |-> TRUE,
                               issued |-> 0, inflight |-> {},
                               succeeded |-> {}, op |-> "mount"])

\* 'Atualizar' of the dashboard, onRefresh of HoldingsList, or a changed
\* transaction
ReloadAgain ==
  \E by \in ReloadCallers :
    /\ pr.issued < MaxReloads
    /\ PrCommit(reloadPortfolioCall(pr), by)

\* GET /portfolio/summary answers: setPortfolio(data), then finally
SummaryArrives ==
  \E i \in pr.inflight :
    /\ PrCommit([pr EXCEPT !.portfolio = i,
                           !.portfolioLoading = FALSE,
                           !.inflight = @ \ {i},
                           !.succeeded = @ \cup {i}],
                "arrived")

\* GET /portfolio/summary fails: console.error, then finally
SummaryFails ==
  \E i \in pr.inflight :
    /\ PrCommit([pr EXCEPT !.portfolioLoading = FALSE,
                           !.inflight = @ \ {i}],
                "failed")

NextReload ==
  \/ ReloadAgain
  \/ SummaryArrives
  \/ SummaryFails

SpecReload == InitReload /\ [][NextReload]_vars

\* C27: portfolioLoading is true exactly while a GET /portfolio/summary is
\* in flight, and with none in flight the portfolio held is the response of
\* the latest issued request that succeeded.
C27_LoadingAndLatestResponse ==
  /\ pr.portfolioLoading = (pr.inflight # {})
  /\ (pr.inflight = {} /\ pr.succeeded # {})
       => pr.portfolio = CHOOSE i \in pr.succeeded :
                           \A j \in pr.succeeded : j <= i

----------------------------------------------------------------------------
(* RiskPanel: the questionnaire wizard (SpecRisk) *)

\* questions of the questionnaire the server returns
MaxQuestions == 8

\* POST /risk requests sent in a run
MaxSaves == 1

DEFAULT_SLIDER_VALUE == 3
QUESTIONS_PER_STEP == 4

\* positions of the slider the model uses
SliderValues == {1, DEFAULT_SLIDER_VALUE}

RestrictionOptions == {"excluir_cripto"}

\* questionnaire = null; the questions are numbered 1..n
NoQuestionnaire == [held |-> FALSE, n |-> 0]

\* answers of no question
NoAnswers == [q \in {} |-> DEFAULT_SLIDER_VALUE]

\* profile = null
NoProfile == [profile |-> None, answers |-> NoAnswers, restrictions |-> {}]

NoPayload == [sent |-> FALSE]

\* buildInitialAnswers kept to the answers the profile has
buildInitialAnswersExistingOnly(n, existing) ==
  [q \in (1..n) \cap DOMAIN existing |-> existing[q]]

\* buildInitialAnswers(questions, existing)
buildInitialAnswers(n, existing) ==
  [q \in 1..n |-> IF q \in DOMAIN existing THEN existing[q]
                  ELSE DEFAULT_SLIDER_VALUE]

\* Math.ceil(questionnaire.questions.length / QUESTIONS_PER_STEP), 0 without
\* a questionnaire
totalSteps(s) ==
  IF ~s.questionnaire.held THEN 0
  ELSE (s.questionnaire.n + QUESTIONS_PER_STEP - 1) \div QUESTIONS_PER_STEP

\* questionnaire.questions.slice(start, end) of the active step
currentQuestions(s) ==
  {q \in 1..s.questionnaire.n :
     /\ q > s.activeStep * QUESTIONS_PER_STEP
     /\ q <= s.activeStep * QUESTIONS_PER_STEP + QUESTIONS_PER_STEP}

\* the wizard section is rendered
WizardShown(s) ==
  ~s.loading /\ s.error = None /\ s.wizardOpen /\ s.questionnaire.held

\* the footer offers 'Proximo', else 'Salvar perfil'
NextOffered(s) == WizardShown(s) /\ s.activeStep < totalSteps(s) - 1
SaveOffered(s) == WizardShown(s) /\ ~(s.activeStep < totalSteps(s) - 1)

RkCommit(s, name) ==
  /\ s.posted <= MaxSaves
  /\ rk' = [s EXCEPT !.op = name]
  /\ UNCHANGED <<app, hl, th, sl, pp, nl, wd, rb, lf, ah, cb, ed, pr, pg>>

\* the state after construction; the effect's requests are in flight.
\* post: the payload of the POST /risk in flight; posted: requests sent
InitRisk ==
  /\ pg = Idle
  /\ pr = Idle
  /\ ed = Idle
  /\ cb = Idle
  /\ ah = Idle
  /\ app = Boot("t1", "/perfil")
  /\ hl = HlIdle
  /\ th = ThIdle
  /\ sl = Idle
  /\ pp = Idle
  /\ nl = Idle
  /\ wd = Idle
  /\ rb = Idle
  /\ lf = Idle
  /\ rk = [questionnaire |-> NoQuestionnaire, profile |-> NoProfile,
           loading |-> TRUE, error |-> None, wizardOpen |-> FALSE,
           activeStep |-> 0, answers |-> NoAnswers, restrictions |-> {},
           saving |-> FALSE, saveError |-> None, post |-> NoPayload,
           posted |-> 0, op |-> "mount"]

\* what GET /risk returns as answers for a questionnaire of n questions
ExistingAnswers(n) ==
  {NoAnswers, [q \in {1} |-> 1], [q \in 1..n |-> 1]}

\* GET /risk/questions and GET /risk have both resolved
RiskLoaded ==
  \E n \in 0..MaxQuestions, r \in SUBSET RestrictionOptions :
    \E a \in ExistingAnswers(n) :
      /\ rk.loading
      /\ RkCommit([rk EXCEPT
                     !.questionnaire = [held |-> TRUE, n |-> n],
                     !.profile = [profile |-> "moderado", answers |-> a,
                                  restrictions |-> r],
                     !.answers = buildInitialAnswers(n, a),
                     !.restrictions = r,
                     !.activeStep = 0,
                     !.loading = FALSE],
                  "loaded")

RiskLoadFails ==
  /\ rk.loading
  /\ RkCommit([rk EXCEPT
                 !.error = "Nao foi possivel carregar o questionario de risco.",
                 !.loading = FALSE],
              "loadFailed")

\* openWizard()
openWizard(s) ==
  LET t == IF s.questionnaire.held
           THEN [s EXCEPT !.answers = buildInitialAnswers(s.questionnaire.n,
                                                          s.profile.answers),
                          !.restrictions = s.profile.restrictions]
           ELSE s
  IN  [t EXCEPT !.activeStep = 0, !.saveError = None, !.wizardOpen = TRUE]

\* the button of the header, shown when loaded without error
clickOpenWizard ==
  /\ ~rk.loading /\ rk.error = None
  /\ RkCommit(openWizard(rk), "openWizard")

\* 'Cancelar' of the footer (disabled while saving) or the button of the
\* header that closes the wizard
clickCancelWizard ==
  \E footer \in BOOLEAN :
    /\ ~rk.loading /\ rk.error = None /\ rk.wizardOpen
    /\ footer => (WizardShown(rk) /\ ~rk.saving)
    /\ RkCommit([rk EXCEPT !.wizardOpen = FALSE], "cancel")

\* 'Proximo'
clickNext ==
  /\ NextOffered(rk)
  /\ LET m == rk.activeStep + 1
         t == totalSteps(rk) - 1
     IN  RkCommit([rk EXCEPT !.activeStep = IF m < t THEN m ELSE t], "next")

\* 'Voltar': disabled={saving || activeStep === 0}
clickBack ==
  /\ WizardShown(rk) /\ ~rk.saving /\ rk.activeStep # 0
  /\ RkCommit([rk EXCEPT !.activeStep = IF @ - 1 > 0 THEN @ - 1 ELSE 0],
              "back")

\* the first slider of the active step is moved
handleAnswerChange ==
  \E q \in currentQuestions(rk), v \in SliderValues :
    /\ WizardShown(rk)
    /\ q % QUESTIONS_PER_STEP = 1
    /\ (q \in DOMAIN rk.answers => rk.answers[q] # v)
    /\ RkCommit([rk EXCEPT !.answers =
                   [x \in DOMAIN @ \cup {q} |-> IF x = q THEN v ELSE @[x]]],
                "answer")

\* a checkbox of the last step
toggleRestriction ==
  \E id \in RestrictionOptions :
    /\ WizardShown(rk) /\ rk.activeStep = totalSteps(rk) - 1
    /\ RkCommit([rk EXCEPT !.restrictions =
                   IF id \in @ THEN @ \ {id} ELSE @ \cup {id}],
                "restriction")

\* handleSave up to its await
handleSave(s) ==
  IF ~s.questionnaire.held THEN s
  ELSE [s EXCEPT !.saving = TRUE, !.saveError = None,
                 !.post = [sent |-> TRUE, answers |-> s.answers,
                           restrictions |-> s.restrictions],
                 !.posted = @ + 1]

\* 'Salvar perfil': disabled={saving}
clickSaveProfile ==
  /\ SaveOffered(rk) /\ ~rk.saving
  /\ rk.posted < MaxSaves
  /\ RkCommit(handleSave(rk), "handleSave")

\* POST /risk resolves; the data is merged over the profile, with or
\* without the answers in it
SaveProfileResolves ==
  \E echo \in BOOLEAN :
    /\ rk.post.sent
    /\ RkCommit([rk EXCEPT
                   !.profile = IF echo
                               THEN [profile |-> "arrojado",
                                     answers |-> rk.post.answers,
                                     restrictions |-> rk.post.restrictions]
                               ELSE [@ EXCEPT !.profile = "arrojado"],
                   !.wizardOpen = FALSE,
                   !.saving = FALSE,
                   !.post = NoPayload],
                "saved")

SaveProfileRejects ==
  /\ rk.post.sent
  /\ RkCommit([rk EXCEPT
                 !.saveError = "Nao foi possivel salvar o perfil de risco.",
                 !.saving = FALSE,
                 !.post = NoPayload],
              "saveFailed")

NextRisk ==
  \/ RiskLoaded
  \/ RiskLoadFails
  \/ clickOpenWizard
  \/ clickCancelWizard
  \/ clickNext
  \/ clickBack
  \/ handleAnswerChange
  \/ toggleRestriction
  \/ clickSaveProfile
  \/ SaveProfileResolves
  \/ SaveProfileRejects

SpecRisk == InitRisk /\ [][NextRisk]_vars

\* the bounds on activeStep, the step of 'Salvar perfil' and the payload
WizardInvariant ==
  (rk.questionnaire.held /\ rk.questionnaire.n >= 1) =>
    /\ 0 <= rk.activeStep /\ rk.activeStep <= totalSteps(rk) - 1
    /\ SaveOffered(rk) => rk.activeStep = totalSteps(rk) - 1
    /\ rk.op = "handleSave" =>
         /\ rk.post.sent
         /\ DOMAIN rk.post.answers = 1..rk.questionnaire.n

\* C30: with a questionnaire of at least one question, activeStep stays
\* within 0..totalSteps - 1, 'Salvar perfil' is offered only on the last
\* step and the payload of handleSave has an answer for every question;
\* cancelling sends no request and leaves the profile as it was.
C30_WizardSteps ==
  /\ []WizardInvariant
  /\ [][rk'.op = "cancel" =>
          (rk'.profile = rk.profile /\ rk'.posted = rk.posted
           /\ rk'.post = rk.post)]_vars

\* a payload sent from the second step of a questionnaire of five
\* questions, one of them without an answer in the profile and moved
C30_Witness ==
  /\ rk.op = "handleSave"
  /\ rk.questionnaire.n = 5
  /\ rk.activeStep = 1
  /\ DOMAIN rk.profile.answers = {1}
  /\ rk.post.answers[5] = 1

----------------------------------------------------------------------------
(* TransactionsHistory: pages of the list (SpecPaging) *)

\* calls of fetchTransactions in a run, the one of the mount effect included
MaxFetches == 4

\* filters.limit
PageLimit == 1

\* the filters that can be applied, and how many transactions the server
\* holds for each
FilterChoices == {"default", "last30"}
ServerCount(f) == IF f = "default" THEN 2 ELSE 0

\* the response to GET /portfolio/transactions with the filters f and the
\* offset o: a transaction is named by the filters and its position
PageItems(f, o) ==
  LET last == IF o + PageLimit < ServerCount(f) THEN o + PageLimit
              ELSE ServerCount(f)
  IN  [i \in 1..(IF last > o THEN last - o ELSE 0) |->
         [filters |-> f, pos |-> o + i]]

PgCommit(s, name) ==
  /\ pg' = [s EXCEPT !.op = name]
  /\ UNCHANGED <<app, hl, th, sl, pp, nl, wd, rb, lf, ah, cb, ed, pr, rk>>

\* fetchTransactions(filterState, nextOffset, append) up to its await
fetchTransactions(s, filterState, nextOffset, append) ==
  LET t == IF append THEN [s EXCEPT !.loadingMore = TRUE]
           ELSE [s EXCEPT !.loading = TRUE, !.error = None]
  IN  [t EXCEPT !.fetches = Append(@, [filters |-> filterState,
                                       offset |-> nextOffset,
                                       append |-> append]),
                !.issued = @ + 1]

\* the state after the mount effect
InitPaging ==
  /\ rk = Idle
  /\ pr = Idle
  /\ ed = Idle
  /\ cb = Idle
  /\ ah = Idle
  /\ app = Boot("t1", "/carteira")
  /\ hl = HlIdle
  /\ th = ThIdle
  /\ sl = Idle
  /\ pp = Idle
  /\ nl = Idle
  /\ wd = Idle
  /\ rb = Idle
  /\ lf = Idle
  /\ pg = fetchTransactions([appliedFilters |-> "default",
                             transactions |-> <<>>, total |-> 0,
                             offset |-> 0, loading |-> TRUE,
                             loadingMore |-> FALSE, error |-> None,
                             fetches |-> <<>>, issued |-> 0, op |-> "mount"],
                            "default", 0, FALSE)

\* 'Aplicar', 'Limpar' or a quick range with other filters: the effect on
\* appliedFilters fetches the first page
setAppliedFilters ==
  \E f \in FilterChoices :
    /\ f # pg.appliedFilters
    /\ pg.issued < MaxFetches
    /\ PgCommit(fetchTransactions([pg EXCEPT !.appliedFilters = f],
                                  f, 0, FALSE),
                "applyFilters")

\* refreshKey changes, or 'Tentar novamente' is clicked
fetchFirstPage ==
  \E retry \in BOOLEAN :
    /\ retry => (~pg.loading /\ pg.error # None)
    /\ pg.issued < MaxFetches
    /\ PgCommit(fetchTransactions(pg, pg.appliedFilters, 0, FALSE),
                IF retry THEN "retry" ELSE "refreshKey")

hasMore(s) == s.offset < s.total

\* 'Carregar mais': shown with the table when hasMore,
\* disabled={loadingMore}
loadMore ==
  /\ ~pg.loading /\ pg.error = None /\ pg.transactions # <<>>
  /\ hasMore(pg) /\ ~pg.loadingMore
  /\ pg.issued < MaxFetches
  /\ PgCommit(fetchTransactions(pg, pg.appliedFilters, pg.offset, TRUE),
              "loadMore")

\* the finally of fetchTransactions
fetchFinally(s, r) ==
  IF r.append THEN [s EXCEPT !.loadingMore = FALSE]
  ELSE [s EXCEPT !.loading = FALSE]

\* a GET /portfolio/transactions resolves
PageResolves ==
  \E i \in 1..Len(pg.fetches) :
    LET r     == pg.fetches[i]
        items == PageItems(r.filters, r.offset)
    IN  PgCommit(fetchFinally(
                   [pg EXCEPT !.transactions = IF r.append THEN @ \o items
                                               ELSE items,
                              !.total = ServerCount(r.filters),
                              !.offset = r.offset + Len(items),
                              !.fetches = Without(@, i)], r),
                 "resolved")

\* a GET /portfolio/transactions fails
PageRejects ==
  \E i \in 1..Len(pg.fetches) :
    PgCommit(fetchFinally(
               [pg EXCEPT !.error = "Falha ao carregar historico.",
                          !.fetches = Without(@, i)], pg.fetches[i]),
             "rejected")

NextPaging ==
  \/ setAppliedFilters
  \/ fetchFirstPage
  \/ loadMore
  \/ PageResolves
  \/ PageRejects

SpecPaging == InitPaging /\ [][NextPaging]_vars

\* C25: with no fetch in flight (and no error displayed in place of the
\* table), the offset is the number of loaded transactions and every
\* loaded transaction was returned for the applied filters.
C25_OffsetAndFiltersAtRest ==
  (pg.fetches = <<>> /\ pg.error = None) =>
    /\ pg.offset = Len(pg.transactions)
    /\ \A i \in 1..Len(pg.transactions) :
         pg.transactions[i].filters = pg.appliedFilters

====
